---- MODULE Spec2Model ----
(***************************************************************************)
(* A model of bub's tape compiler (src/bub/tape/context.py), the function  *)
(* that turns the ordered tape of a conversation into the message list a   *)
(* model call consumes, and of the tool registry                           *)
(* (src/bub/tools/registry.py).                                            *)
(*                                                                         *)
(* Python values.  Every Python value is a record.  A dict is the record   *)
(* of its keys (it has no key named "type"); every other value is a        *)
(* record with a "type" field: a str, an int, None and an object that      *)
(* json cannot serialize carry their text in "val", a list carries its     *)
(* items in "items".  A key a dict does not have is a key outside the      *)
(* record's DOMAIN, so adding a key to a stored dict is visible.           *)
(***************************************************************************)
EXTENDS Integers, Sequences, FiniteSets, Bags, TLC

VARIABLES
    original,       \* the tape as the caller built it, entry by entry
    entries,        \* the same entries as the store holds them now
    messages,       \* _select_messages: the accumulator `messages`
    pending_calls,  \* _select_messages: the local `pending_calls`
    emitted,        \* history: emitted[j] is what entry j appended to `messages`
    pc,             \* "loop", "returned", "loop2", "returned2" or "raised"
    index2,         \* a second _select_messages(entries): the entry it is at
    messages2,      \* ... its accumulator `messages`
    pending_calls2, \* ... its local `pending_calls`
    given,          \* _sanitize_tool_call alone: the call item it is given
    sanitized,      \* ... what it returned
    resanitized,    \* ... what it returned when given `sanitized`
    sanitize_pc,    \* "start", "once", "twice" or "raised"
    _tools,         \* ToolRegistry._tools: name -> ToolDescriptor
    insertion,      \* ... the keys of that dict in the order they were inserted
    _allowed_tools, \* ToolRegistry._allowed_tools: None or a set of names
    outcome,        \* what the last registry operation returned or raised
    request,        \* the arguments the last registry operation was given (and,
                    \* for register, `replaced`: what the name held before)
    latest,         \* history: name -> the descriptor register returned last for it
    executing,      \* the bag of execute calls that await their tool body
    _app,           \* TelegramChannel._app: "Application" or "None"
    _typing_tasks,  \* TelegramChannel._typing_tasks: chat_id -> typing task
    tasks,          \* typing task -> "none" (not created), "running", "cancelling"
                    \* (cancel() called, CancelledError not yet delivered),
                    \* "cancelled", "failed" or "exited"
    handlers,       \* _on_text invocation -> where it is: "idle", "_start_typing",
                    \* "on_receive", "_stop_typing" or "returned"; its chat_id; the
                    \* task it awaits; the update it was given; whether it
                    \* called on_receive; what it sent with reply_text
    _config,        \* TelegramChannel._config: allow_from and allow_chats
    _on_receive,    \* TelegramChannel._on_receive: "None" or "Callable"
    stopping,       \* start(): "init", "polling", "gather", "stop" or "stopped",
                    \* and the tasks its gather waits for
    full_text,      \* _split_message: the text it was called with
    text,           \* ... the local `text`: what is left to split
    limit,          \* ... the argument `limit`
    chunks,         \* ... the local `chunks`, and what it returns
    split_pc        \* "idle", "call", "while" or "returned"

tapeVars == <<original, entries, messages, pending_calls, emitted, pc,
              index2, messages2, pending_calls2>>
sanitizeVars == <<given, sanitized, resanitized, sanitize_pc>>
registryVars == <<_tools, insertion, _allowed_tools, outcome, request, latest, executing>>
typingVars == <<_app, _typing_tasks, tasks, handlers, stopping, _config, _on_receive>>
splitVars == <<full_text, text, limit, chunks, split_pc>>
vars == <<tapeVars, sanitizeVars, registryVars, typingVars, splitVars>>

\* ------------------------------------------------------------ bounds
MaxEntries == 3
MaxTools == 3
MaxCalls == 2
MaxHandlers == 3
MaxText == 5
MaxLimit == 3

\* ------------------------------------------------------------ values
None == [type |-> "NoneType", val |-> "None"]
Str(s) == [type |-> "str", val |-> s]
PyInt(s) == [type |-> "int", val |-> s]
PyObj(s) == [type |-> "object", val |-> s]
List(s) == [type |-> "list", items |-> s]

IsDict(v) == "type" \notin DOMAIN v
IsStr(v) == ~IsDict(v) /\ v.type = "str"
IsList(v) == ~IsDict(v) /\ v.type = "list"

\* dict.get(key): the value, or None when the key is absent.
Get(d, k) == IF k \in DOMAIN d THEN d[k] ELSE None

\* d[k] = v on a dict: the key is added when it was absent.
SetItem(d, k, v) == [x \in DOMAIN d \cup {k} |-> IF x = k THEN v ELSE d[x]]

\* bool(s) of a str.
Truthy(s) == s.val /= ""

\* ------------------------------------------------------------ json
DictQX == [q |-> Str("x")]
DictObj == [q |-> PyObj("<object>")]

\* json.dumps raises TypeError on a value it cannot serialize.
RECURSIVE JsonSerializable(_)
JsonSerializable(v) ==
    IF IsDict(v) THEN \A k \in DOMAIN v : JsonSerializable(v[k])
    ELSE IF v.type = "list"
        THEN \A i \in 1..Len(v.items) : JsonSerializable(v.items[i])
    ELSE v.type /= "object"

\* json.dumps(v, ensure_ascii=False), on the serializable values drawn here.
JsonDumps(v) ==
    IF IsDict(v) THEN (IF v = DictQX THEN "{\"q\": \"x\"}" ELSE "{}")
    ELSE IF v.type = "str" THEN "\"" \o v.val \o "\""
    ELSE IF v.type = "int" THEN v.val
    ELSE IF v.type = "list" THEN (IF v.items = <<>> THEN "[]" ELSE "[1]")
    ELSE "null"

\* The texts json.loads accepts, with the type of the value it returns.
JsonTexts == {"{}", "{\"q\": \"x\"}", "[]", "[1]", "5", "null", "\"x\""}
JsonLoads(s) ==
    IF s \notin JsonTexts THEN "JSONDecodeError"
    ELSE IF s \in {"{}", "{\"q\": \"x\"}"} THEN "dict"
    ELSE IF s \in {"[]", "[1]"} THEN "list"
    ELSE IF s = "5" THEN "int"
    ELSE IF s = "null" THEN "NoneType"
    ELSE "str"

\* str(v), of an object json cannot serialize.
PyStr(v) == v.val

\* ------------------------------------------------------------ compiler
\* _render_tool_result: the content of a tool message.
_render_tool_result(result) ==
    IF IsStr(result) THEN result.val
    ELSE IF JsonSerializable(result) THEN JsonDumps(result)
    ELSE PyStr(result)

\* function["arguments"] = a, seen through the call that holds `function`.
SetArguments(call, a) ==
    [call EXCEPT !.function = SetItem(call.function, "arguments", a)]

\* Mutant of SanitizeArguments: a str is re-encoded like a mapping, valid or
\* not (isinstance(args, (dict, str))).
SanitizeArguments_Reencode(call, args) ==
    IF IsDict(args) \/ IsStr(args)
        THEN IF JsonSerializable(args)
                THEN [call |-> SetArguments(call, Str(JsonDumps(args))), raised |-> FALSE]
                ELSE [call |-> call, raised |-> TRUE]
    ELSE IF args = None
        THEN [call |-> SetArguments(call, Str("{}")), raised |-> FALSE]
    ELSE [call |-> call, raised |-> FALSE]

\* The branches of _sanitize_tool_call on `args`.
SanitizeArguments(call, args) ==
    IF IsDict(args)
        THEN IF JsonSerializable(args)
                THEN [call |-> SetArguments(call, Str(JsonDumps(args))), raised |-> FALSE]
                ELSE [call |-> call, raised |-> TRUE]
    ELSE IF IsStr(args)
        THEN IF JsonLoads(args.val) = "JSONDecodeError"
                THEN [call |-> SetArguments(call, Str("{}")), raised |-> FALSE]
                ELSE [call |-> call, raised |-> FALSE]
    ELSE IF args = None
        THEN [call |-> SetArguments(call, Str("{}")), raised |-> FALSE]
    ELSE [call |-> call, raised |-> FALSE]

\* _sanitize_tool_call: [call, raised]; json.dumps raises TypeError on
\* arguments it cannot serialize.  The writes go to call["function"], the
\* mapping the stored item holds as well (dict(item) copies one level).
_sanitize_tool_call(call) ==
    IF ~IsDict(Get(call, "function")) THEN [call |-> call, raised |-> FALSE]
    ELSE SanitizeArguments(call, Get(call.function, "arguments"))

\* What the store holds for `item` once its copy was sanitized to `call`:
\* the copy is shallow, so item["function"] is the mapping that was written.
StoredItem(item, call) ==
    IF IsDict(Get(item, "function"))
        THEN [item EXCEPT !.function = call.function]
        ELSE item

\* _normalize_tool_calls, the state of its loop after one more item:
\* [calls, stored, raised], `stored` being the items as the store holds them.
NormalizeItem(acc, item, s) ==
    IF acc.raised \/ ~IsDict(item)
        THEN [acc EXCEPT !.stored = Append(@, item)]
    ELSE IF s.raised
        THEN [acc EXCEPT !.stored = Append(@, item), !.raised = TRUE]
    ELSE [acc EXCEPT !.calls = Append(@, s.call),
                     !.stored = Append(@, StoredItem(item, s.call))]

RECURSIVE NormalizeItems(_, _, _)
NormalizeItems(acc, items, i) ==
    IF i > Len(items) THEN acc
    ELSE NormalizeItems(
            NormalizeItem(acc, items[i],
                IF IsDict(items[i]) THEN _sanitize_tool_call(items[i])
                ELSE [call |-> items[i], raised |-> FALSE]),
            items, i + 1)

ListStored(r) == [r EXCEPT !.stored = List(@)]

\* _normalize_tool_calls: [calls, stored, raised], `stored` being `value`
\* as the store holds it afterwards.
_normalize_tool_calls(value) ==
    IF ~IsList(value) THEN [calls |-> <<>>, stored |-> value, raised |-> FALSE]
    ELSE ListStored(NormalizeItems(
            [calls |-> <<>>, stored |-> <<>>, raised |-> FALSE], value.items, 1))

\* Mutant of CallFields: the name is attached only to a message that got a
\* tool_call_id (the test of the name sits inside the test of the id).
CallFields_NameNeedsId(call_id, function) ==
    IF IsStr(call_id) /\ Truthy(call_id)
        THEN [tool_call_id |-> call_id]
                @@ (IF IsDict(function) /\ IsStr(Get(function, "name"))
                                       /\ Truthy(Get(function, "name"))
                        THEN [name |-> function.name] ELSE <<>>)
        ELSE <<>>

\* The fields _build_tool_result_message takes from the paired call.
CallFields(call_id, function) ==
    (IF IsStr(call_id) /\ Truthy(call_id) THEN [tool_call_id |-> call_id] ELSE <<>>)
        @@ (IF IsDict(function) /\ IsStr(Get(function, "name"))
                               /\ Truthy(Get(function, "name"))
                THEN [name |-> function.name] ELSE <<>>)

\* Mutant of _build_tool_result_message: the call is taken one position late
\* (pending_calls[index + 1]).
_build_tool_result_message_OffByOne(result, pending, index) ==
    [role |-> Str("tool"), content |-> Str(_render_tool_result(result))]
        @@ (IF index + 1 >= Len(pending) THEN <<>>
            ELSE CallFields(Get(pending[index + 2], "id"),
                            Get(pending[index + 2], "function")))

\* _build_tool_result_message; index counts from 0 as in the source.
_build_tool_result_message(result, pending, index) ==
    [role |-> Str("tool"), content |-> Str(_render_tool_result(result))]
        @@ (IF index >= Len(pending) THEN <<>>
            ELSE CallFields(Get(pending[index + 1], "id"),
                            Get(pending[index + 1], "function")))

\* Mutant of _append_message_entry: the payload is appended whatever it is.
_append_message_entry_AnyPayload(msgs, entry) == Append(msgs, entry.payload)

\* _append_message_entry: the accumulator afterwards.
_append_message_entry(msgs, entry) ==
    IF IsDict(entry.payload) THEN Append(msgs, entry.payload) ELSE msgs

\* _append_tool_call_entry once `calls` was normalized to n.
AppendToolCalls(msgs, payload, n) ==
    [messages |-> IF ~n.raised /\ n.calls /= <<>>
                      THEN Append(msgs, [role |-> Str("assistant"),
                                         content |-> Str(""),
                                         tool_calls |-> List(n.calls)])
                      ELSE msgs,
     calls |-> n.calls,
     payload |-> IF "calls" \in DOMAIN payload
                     THEN [payload EXCEPT !.calls = n.stored]
                     ELSE payload,
     raised |-> n.raised]

\* _append_tool_call_entry: [messages, calls, payload, raised]; entry.payload.get
\* raises AttributeError on a payload that is not a mapping.
_append_tool_call_entry(msgs, entry) ==
    IF ~IsDict(entry.payload)
        THEN [messages |-> msgs, calls |-> <<>>, payload |-> entry.payload, raised |-> TRUE]
    ELSE AppendToolCalls(msgs, entry.payload,
                         _normalize_tool_calls(Get(entry.payload, "calls")))

\* Mutant of ResultMessages: the loop runs over zip(results, pending_calls).
ResultMessages_Zip(results, pending) ==
    [i \in 1..(IF Len(results) < Len(pending) THEN Len(results) ELSE Len(pending)) |->
        _build_tool_result_message(results[i], pending, i - 1)]

\* The loop of _append_tool_result_entry over `results`.
ResultMessages(results, pending) ==
    [i \in 1..Len(results) |-> _build_tool_result_message(results[i], pending, i - 1)]

\* _append_tool_result_entry: [messages, raised]; entry.payload.get raises
\* AttributeError on a payload that is not a mapping.
_append_tool_result_entry(msgs, pending, entry) ==
    IF ~IsDict(entry.payload) THEN [messages |-> msgs, raised |-> TRUE]
    ELSE IF ~IsList(Get(entry.payload, "results"))
        THEN [messages |-> msgs, raised |-> FALSE]
    ELSE [messages |-> msgs \o ResultMessages(entry.payload.results.items, pending),
          raised |-> FALSE]

\* Mutant of AfterToolCall: an entry without calls keeps the pending calls
\* (pending_calls = calls or pending_calls).
AfterToolCall_KeepPending(pending, entry, r) ==
    [messages |-> r.messages,
     pending_calls |-> IF r.raised \/ r.calls = <<>> THEN pending ELSE r.calls,
     stored |-> [entry EXCEPT !.payload = r.payload],
     raised |-> r.raised]

\* Mutant of AfterToolCall: the calls are added to the pending calls
\* (pending_calls.extend(calls)).
AfterToolCall_Extend(pending, entry, r) ==
    [messages |-> r.messages,
     pending_calls |-> IF r.raised THEN pending ELSE pending \o r.calls,
     stored |-> [entry EXCEPT !.payload = r.payload],
     raised |-> r.raised]

\* The loop state after the tool_call branch returned r.
AfterToolCall(pending, entry, r) ==
    [messages |-> r.messages,
     pending_calls |-> IF r.raised THEN pending ELSE r.calls,
     stored |-> [entry EXCEPT !.payload = r.payload],
     raised |-> r.raised]

\* Mutant of AfterToolResult: the pending calls are cleared only when the
\* entry held a list of results.
AfterToolResult_KeepOnIgnore(pending, entry, r) ==
    [messages |-> r.messages,
     pending_calls |-> IF r.raised \/ ~IsList(Get(entry.payload, "results"))
                           THEN pending ELSE <<>>,
     stored |-> entry,
     raised |-> r.raised]

\* Mutant of AfterToolResult: only the calls that met a result leave the
\* pending calls (pending_calls = pending_calls[len(results):]).
AfterToolResult_KeepUnused(pending, entry, r) ==
    [messages |-> r.messages,
     pending_calls |-> IF r.raised \/ ~IsList(Get(entry.payload, "results"))
                           THEN pending
                           ELSE SubSeq(pending, Len(entry.payload.results.items) + 1,
                                       Len(pending)),
     stored |-> entry,
     raised |-> r.raised]

\* The loop state after the tool_result branch returned r.
AfterToolResult(pending, entry, r) ==
    [messages |-> r.messages,
     pending_calls |-> IF r.raised THEN pending ELSE <<>>,
     stored |-> entry,
     raised |-> r.raised]

\* Mutant of LoopBody: every entry that is no tool_call entry ends with
\* pending_calls = [].
LoopBody_ClearOnOther(msgs, pending, entry) ==
    IF entry.kind = "message"
        THEN [messages |-> _append_message_entry(msgs, entry),
              pending_calls |-> <<>>, stored |-> entry, raised |-> FALSE]
    ELSE IF entry.kind = "tool_call"
        THEN AfterToolCall(pending, entry, _append_tool_call_entry(msgs, entry))
    ELSE IF entry.kind = "tool_result"
        THEN AfterToolResult(pending, entry,
                             _append_tool_result_entry(msgs, pending, entry))
    ELSE [messages |-> msgs, pending_calls |-> <<>>, stored |-> entry, raised |-> FALSE]

\* One iteration of the for loop of _select_messages on `entry`:
\* [messages, pending_calls, stored, raised], `stored` being the entry as
\* the store holds it afterwards.
LoopBody(msgs, pending, entry) ==
    IF entry.kind = "message"
        THEN [messages |-> _append_message_entry(msgs, entry),
              pending_calls |-> pending, stored |-> entry, raised |-> FALSE]
    ELSE IF entry.kind = "tool_call"
        THEN AfterToolCall(pending, entry, _append_tool_call_entry(msgs, entry))
    ELSE IF entry.kind = "tool_result"
        THEN AfterToolResult(pending, entry,
                             _append_tool_result_entry(msgs, pending, entry))
    ELSE [messages |-> msgs, pending_calls |-> pending, stored |-> entry, raised |-> FALSE]

\* ------------------------------------------------------------ tapes
Entry(k, p) == [kind |-> k, payload |-> p]

CallA == [id |-> Str("c1"), function |-> [name |-> Str("f"), arguments |-> DictQX]]
CallB == [id |-> Str("c2"), function |-> [name |-> Str("g"), arguments |-> Str("not json")]]
CallC == [id |-> Str("c3"), function |-> [name |-> Str("h")]]
CallD == [id |-> Str(""), function |-> Str("oops")]
CallE == [id |-> Str("c4"), function |-> [name |-> Str("k"), arguments |-> PyInt("5")]]
CallU == [id |-> Str("c5"), function |-> [name |-> Str("u"), arguments |-> DictObj]]
CallF == [function |-> [name |-> Str(""), arguments |-> Str("{}")]]
CallG == [id |-> PyInt("7"), function |-> [name |-> PyInt("7"), arguments |-> Str("[1]")]]
CallH == [function |-> [name |-> Str("n"), arguments |-> Str("{}")]]
CallI == [id |-> Str("c6")]
Junk == Str("junk")

CallLists ==
    {<<>>, <<CallA, CallB>>, <<Junk, CallB>>, <<CallC, CallD>>, <<CallF, CallG>>,
     <<CallE>>, <<CallU>>, <<CallH, CallI>>}

ResultLists ==
    {<<>>, <<Str("ok")>>, <<Str("r1"), DictQX>>, <<Str("r1"), PyObj("<object>"), PyInt("5")>>}

MessageEntries ==
    {Entry("message", [role |-> Str("user"), content |-> Str("hi")]),
     Entry("message", Str("junk"))}

ToolCallEntries ==
    {Entry("tool_call", [calls |-> List(c)]) : c \in CallLists}
        \cup {Entry("tool_call", [calls |-> Str("junk")]),
              Entry("tool_call", [note |-> Str("x")]),
              Entry("tool_call", None)}

ToolResultEntries ==
    {Entry("tool_result", [results |-> List(r)]) : r \in ResultLists}
        \cup {Entry("tool_result", [results |-> Str("junk")]),
              Entry("tool_result", None)}

OtherEntries == {Entry("anchor", [name |-> Str("handoff")])}

\* ------------------------------------------------------------ actions
TapeInit ==
    /\ original = <<>>
    /\ entries = <<>>
    /\ messages = <<>>
    /\ pending_calls = <<>>
    /\ emitted = <<>>
    /\ pc = "loop"
    /\ index2 = 1
    /\ messages2 = <<>>
    /\ pending_calls2 = <<>>

\* ------------------------------------------------------------ telegram, typing tasks
\* The _on_text invocations that run concurrently (block=False).  Invocation h
\* creates at most one typing task, in its _start_typing; that task is named h.
Handlers == 1..MaxHandlers

\* str(n) of an int.
Digits == <<"0", "1", "2", "3", "4", "5", "6", "7", "8", "9">>
RECURSIVE str(_)
str(n) ==
    IF n < 0 THEN "-" \o str(0 - n)
    ELSE IF n < 10 THEN Digits[n + 1]
    ELSE str(n \div 10) \o Digits[(n % 10) + 1]

\* update.message.chat_id
ChatIds == {1, 2}

\* str(update.message.chat_id)
Chats == {str(n) : n \in ChatIds}

\* update.effective_user: its id and its username ("" for a user without one).
Senders == {[id |-> 7, username |-> ""], [id |-> 8, username |-> "bob"]}

\* An update with a message and an effective user.
UserUpdate(n, sender) ==
    [message |-> TRUE, effective_user |-> TRUE, chat_id |-> n,
     id |-> sender.id, username |-> sender.username]

\* update.message is None; update.effective_user is None.
NoMessageUpdate ==
    [message |-> FALSE, effective_user |-> TRUE, chat_id |-> 0, id |-> 7, username |-> ""]
NoUserUpdate ==
    [message |-> TRUE, effective_user |-> FALSE, chat_id |-> 1, id |-> 0, username |-> ""]

\* The updates _on_text is given.
Updates ==
    {NoMessageUpdate, NoUserUpdate}
        \cup {UserUpdate(n, sender) : n \in ChatIds, sender \in Senders}

\* One update per chat, all from one user.
PlainUpdates == {UserUpdate(n, [id |-> 7, username |-> ""]) : n \in ChatIds}

\* No update: what an invocation that has not started holds.
NoUpdate ==
    [message |-> FALSE, effective_user |-> FALSE, chat_id |-> 0, id |-> 0, username |-> ""]

\* TelegramConfig: allow_from and allow_chats, each empty or one entry.
Configs == [allow_from : {{}, {"7"}, {"bob"}}, allow_chats : {{}, {"1"}}]

\* The config that restricts nothing.
AllowAll == [allow_from |-> {}, allow_chats |-> {}]

\* sender_tokens: str(user.id), and user.username when it is truthy.
sender_tokens(u) == {str(u.id)} \cup (IF u.username /= "" THEN {u.username} ELSE {})

\* Mutant of Verdict: the sender is not tested.
Verdict_AnySender(config, on_receive, u) ==
    IF ~u.message \/ ~u.effective_user THEN "return"
    ELSE IF config.allow_chats /= {} /\ str(u.chat_id) \notin config.allow_chats
    THEN "return"
    ELSE IF on_receive = "None" THEN "return"
    ELSE "on_receive"

\* _on_text up to `await self._start_typing`: how it leaves, "return",
\* "Access denied." (replied, then return) or "on_receive" (it goes on).
Verdict(config, on_receive, u) ==
    IF ~u.message \/ ~u.effective_user THEN "return"
    ELSE IF config.allow_chats /= {} /\ str(u.chat_id) \notin config.allow_chats
    THEN "return"
    ELSE IF config.allow_from /= {} /\ sender_tokens(u) \cap config.allow_from = {}
    THEN "Access denied."
    ELSE IF on_receive = "None" THEN "return"
    ELSE "on_receive"


\* No task: what dict.pop(chat_id, None) returns for a chat that has no entry.
NoTask == 0

\* Task.done(): the coroutine of the task returned.
IsDone(state) == state \in {"cancelled", "failed", "exited"}

\* Task.cancel(): a task that has not finished gets CancelledError at its next
\* step; a finished task is left as it is.
cancel(state) == IF state = "running" THEN "cancelling" ELSE state

\* dict.pop(chat_id, None): the dict afterwards.
WithoutChat(tracked, chat_id) == [c \in DOMAIN tracked \ {chat_id} |-> tracked[c]]

\* _stop_typing up to the point where it suspends or returns:
\* [tracked, states, awaited]; awaited is NoTask when it returned at once (there
\* was no task, or `await task` found the task done).
_stop_typing(tracked, states, chat_id) ==
    IF chat_id \notin DOMAIN tracked
    THEN [tracked |-> tracked, states |-> states, awaited |-> NoTask]
    ELSE [tracked |-> WithoutChat(tracked, chat_id),
          states |-> [states EXCEPT ![tracked[chat_id]] = cancel(@)],
          awaited |-> IF IsDone(states[tracked[chat_id]]) THEN NoTask
                      ELSE tracked[chat_id]]

\* An _on_text invocation that has not started.
IdleHandler ==
    [at |-> "idle", chat_id |-> "", awaited |-> NoTask, update |-> NoUpdate,
     received |-> FALSE, reply |-> ""]

\* self._typing_tasks[chat_id] = asyncio.create_task(self._typing_loop(chat_id)),
\* in invocation h, which goes on to call on_receive.
CreateTask(h, chat_id, tracked, states, invocations) ==
    /\ _typing_tasks' = SetItem(tracked, chat_id, h)
    /\ tasks' = [states EXCEPT ![h] = "running"]
    /\ handlers' = [invocations EXCEPT ![h].at = "on_receive", ![h].awaited = NoTask,
                                      ![h].received = TRUE]

\* The channel before start() is called.
TypingIdle ==
    /\ _app = "None"
    /\ _typing_tasks = <<>>
    /\ tasks = [h \in Handlers |-> "none"]
    /\ handlers = [h \in Handlers |-> IdleHandler]
    /\ stopping = [at |-> "init", gathered |-> {}]
    /\ _config = AllowAll
    /\ _on_receive = "None"

\* ------------------------------------------------------------ telegram, _split_message
\* A str is the sequence of its characters; the texts are made of a newline and
\* one other character.
Chars == {"\n", "a"}

RECURSIVE TextsOfLen(_)
TextsOfLen(n) ==
    IF n = 0 THEN {<<>>}
    ELSE {Append(s, c) : s \in TextsOfLen(n - 1), c \in Chars}

Texts == UNION {TextsOfLen(n) : n \in 0..MaxText}

\* len(s) capped as a slice bound caps it.
Clip(s, n) == IF n > Len(s) THEN Len(s) ELSE n

\* s.rfind(c, start, end): the highest index (from 0) of c in s[start:end], or -1.
Found(s, c, start, end) == {i \in start..(Clip(s, end) - 1) : s[i + 1] = c}
rfind(s, c, start, end) ==
    IF Found(s, c, start, end) = {} THEN -1
    ELSE CHOOSE i \in Found(s, c, start, end) : \A j \in Found(s, c, start, end) : j <= i

\* s[:n] and s[n:] for n >= 0.
Before(s, n) == SubSeq(s, 1, Clip(s, n))
From(s, n) == SubSeq(s, Clip(s, n) + 1, Len(s))

\* s.lstrip(c)
RECURSIVE lstrip(_, _)
lstrip(s, c) == IF s /= <<>> /\ Head(s) = c THEN lstrip(Tail(s), c) ELSE s

\* Mutant of SplitAt: only a missing newline falls back to the limit.
SplitAt_NegativeOnly(s, n) ==
    IF rfind(s, "\n", 0, n) < 0 THEN n ELSE rfind(s, "\n", 0, n)

\* split_at: the last newline before the limit, or the limit when there is none
\* or it is the first character.
SplitAt(s, n) ==
    IF rfind(s, "\n", 0, n) <= 0 THEN n ELSE rfind(s, "\n", 0, n)

\* _split_message has not been called.
SplitIdle ==
    /\ full_text = <<>>
    /\ text = <<>>
    /\ limit = 1
    /\ chunks = <<>>
    /\ split_pc = "idle"

\* No call item is being sanitized on its own.
SanitizeIdle ==
    /\ given = None
    /\ sanitized = None
    /\ resanitized = None
    /\ sanitize_pc = "start"

\* No registry is in use: ToolRegistry() with nothing registered.
RegistryIdle ==
    /\ _tools = <<>>
    /\ insertion = <<>>
    /\ _allowed_tools = [is_none |-> TRUE, names |-> {}]
    /\ outcome = [op |-> "init", raised |-> "", value |-> <<>>]
    /\ request = <<>>
    /\ latest = <<>>
    /\ executing = EmptyBag

Init == TapeInit /\ SanitizeIdle /\ RegistryIdle /\ TypingIdle /\ SplitIdle

\* _select_messages, one iteration of its for loop: it takes the next entry
\* of the tape, `entry`.
Iterate(entry) ==
    /\ pc = "loop"
    /\ Len(entries) < MaxEntries
    /\ \E r \in {LoopBody(messages, pending_calls, entry)} :
        /\ original' = Append(original, entry)
        /\ entries' = Append(entries, r.stored)
        /\ messages' = r.messages
        /\ pending_calls' = r.pending_calls
        /\ emitted' = Append(emitted,
                SubSeq(r.messages, Len(messages) + 1, Len(r.messages)))
        /\ pc' = IF r.raised THEN "raised" ELSE "loop"
    /\ UNCHANGED <<index2, messages2, pending_calls2, sanitizeVars, registryVars, typingVars, splitVars>>

MessageEntry == \E entry \in MessageEntries : Iterate(entry)
ToolCallEntry == \E entry \in ToolCallEntries : Iterate(entry)
ToolResultEntry == \E entry \in ToolResultEntries : Iterate(entry)
OtherEntry == \E entry \in OtherEntries : Iterate(entry)

\* The tape is exhausted: _select_messages returns `messages`.
Return ==
    /\ pc = "loop"
    /\ pc' = "returned"
    /\ UNCHANGED <<original, entries, messages, pending_calls, emitted,
                   index2, messages2, pending_calls2, sanitizeVars, registryVars, typingVars, splitVars>>

\* The caller compiles the same entries a second time: _select_messages is
\* entered again, on the entries as the store holds them now.
Recompile ==
    /\ pc = "returned"
    /\ pc' = "loop2"
    /\ index2' = 1
    /\ messages2' = <<>>
    /\ pending_calls2' = <<>>
    /\ UNCHANGED <<original, entries, messages, pending_calls, emitted,
                   sanitizeVars, registryVars, typingVars, splitVars>>

\* One iteration of the for loop of the second run.
Iterate2 ==
    /\ pc = "loop2"
    /\ index2 <= Len(entries)
    /\ \E r \in {LoopBody(messages2, pending_calls2, entries[index2])} :
        /\ entries' = [entries EXCEPT ![index2] = r.stored]
        /\ messages2' = r.messages
        /\ pending_calls2' = r.pending_calls
        /\ pc' = IF r.raised THEN "raised" ELSE "loop2"
    /\ index2' = index2 + 1
    /\ UNCHANGED <<original, messages, pending_calls, emitted,
                   sanitizeVars, registryVars, typingVars, splitVars>>

\* The second run returns `messages2`.
Return2 ==
    /\ pc = "loop2"
    /\ index2 > Len(entries)
    /\ pc' = "returned2"
    /\ UNCHANGED <<original, entries, messages, pending_calls, emitted,
                   index2, messages2, pending_calls2, sanitizeVars, registryVars, typingVars, splitVars>>

Next ==
    \/ MessageEntry
    \/ ToolCallEntry
    \/ ToolResultEntry
    \/ OtherEntry
    \/ Return
    \/ Recompile
    \/ Iterate2
    \/ Return2

Spec == Init /\ [][Next]_vars

\* ------------------------------------------------------------ sanitizer
\* The call items _sanitize_tool_call is given: with and without an id, a
\* function that is absent, no mapping, or a mapping with and without a name
\* whose arguments are absent or one of ArgumentValues.
ArgumentValues ==
    {None, <<>>, DictQX, DictObj,
     Str("{}"), Str("{\"q\": \"x\"}"), Str("[1]"), Str("5"), Str("not json"), Str(""),
     PyInt("5"), List(<<>>)}

FunctionValues ==
    {n @@ a : n \in {<<>>, [name |-> Str("f")]},
              a \in {<<>>} \cup {[arguments |-> v] : v \in ArgumentValues}}

CallItems ==
    {i @@ f : i \in {<<>>, [id |-> Str("c1")]},
              f \in {<<>>, [function |-> Str("oops")]}
                        \cup {[function |-> v] : v \in FunctionValues}}

SanitizeInit ==
    /\ TapeInit
    /\ RegistryIdle
    /\ TypingIdle
    /\ SplitIdle
    /\ given \in CallItems
    /\ sanitized = None
    /\ resanitized = None
    /\ sanitize_pc = "start"

\* _sanitize_tool_call(given).
Sanitize ==
    /\ sanitize_pc = "start"
    /\ \E r \in {_sanitize_tool_call(given)} :
        /\ sanitized' = (IF r.raised THEN None ELSE r.call)
        /\ sanitize_pc' = (IF r.raised THEN "raised" ELSE "once")
    /\ UNCHANGED <<given, resanitized, tapeVars, registryVars, typingVars, splitVars>>

\* _sanitize_tool_call on the call the first application returned.
SanitizeAgain ==
    /\ sanitize_pc = "once"
    /\ \E r \in {_sanitize_tool_call(sanitized)} :
        /\ resanitized' = (IF r.raised THEN None ELSE r.call)
        /\ sanitize_pc' = (IF r.raised THEN "raised" ELSE "twice")
    /\ UNCHANGED <<given, sanitized, tapeVars, registryVars, typingVars, splitVars>>

SanitizeNext == Sanitize \/ SanitizeAgain

SanitizeSpec == SanitizeInit /\ [][SanitizeNext]_vars

TypeOK ==
    /\ pc \in {"loop", "returned", "loop2", "returned2", "raised"}
    /\ Len(entries) = Len(original)
    /\ Len(entries) <= MaxEntries
    /\ Len(emitted) = Len(original)

\* ------------------------------------------------------------ registry
\* A tool name is the sequence of its characters.
NameADotB == <<"a", ".", "b">>
NameAUnderB == <<"a", "_", "b">>
NameUpperADotB == <<"A", ".", "b">>
NameB == <<"b">>
NameBDotADotB == <<"b", ".", "a", ".", "b">>
NameBUnderADotB == <<"b", "_", "a", ".", "b">>
NameUpperAUnderB == <<"A", "_", "b">>

\* The names tools are registered and looked up under.
ToolNames == {NameADotB, NameAUnderB, NameUpperADotB, NameB}

Descriptions == {"d1", "d2"}

\* The allow-sets a registry is constructed with: None, or a set of names.
AllowSets ==
    {[is_none |-> TRUE, names |-> {}],
     [is_none |-> FALSE, names |-> {NameAUnderB}],
     [is_none |-> FALSE, names |-> {NameUpperAUnderB, NameB}]}

\* The code point of a character: sorted() orders str by code points.
Ord(c) ==
    CASE c = "." -> 46
      [] c = "A" -> 65
      [] c = "_" -> 95
      [] c = "a" -> 97
      [] c = "b" -> 98

\* x < y on str.
StrLess(x, y) ==
    \E i \in 1..(Len(x) + 1) :
        /\ i <= Len(y)
        /\ \A k \in 1..(i - 1) : x[k] = y[k]
        /\ (i > Len(x) \/ Ord(x[i]) < Ord(y[i]))

\* str.casefold(), character by character.
CaseFold(name) == [i \in 1..Len(name) |-> IF name[i] = "A" THEN "a" ELSE name[i]]

\* Mutant of to_model_name: only the first "." is replaced
\* (name.replace(".", "_", 1)).
to_model_name_First(name) ==
    [i \in 1..Len(name) |->
        IF name[i] = "." /\ (\A k \in 1..(i - 1) : name[k] /= ".") THEN "_" ELSE name[i]]

\* ToolRegistry.to_model_name: name.replace(".", "_").
to_model_name(name) == [i \in 1..Len(name) |-> IF name[i] = "." THEN "_" ELSE name[i]]

\* list.insert(k, d) on the sequence s, k counted from 0.
InsertAt(s, d, k) == SubSeq(s, 1, k) \o <<d>> \o SubSeq(s, k + 1, Len(s))

\* One step of the stable sort by name: d goes behind every item of the sorted
\* sequence s whose name is not greater than its own.
InsertByName(s, d) ==
    InsertAt(s, d, Cardinality({k \in 1..Len(s) : ~StrLess(d.name, s[k].name)}))

\* Mutant of SortedByName: the values stay in the order of the dict.
SortedByName_DictOrder(values, n) == SubSeq(values, 1, n)

\* sorted(values, key=lambda item: item.name), on the first n values.
RECURSIVE SortedByName(_, _)
SortedByName(values, n) ==
    IF n = 0 THEN <<>> ELSE InsertByName(SortedByName(values, n - 1), values[n])

\* self._tools.values(): the descriptors in the order their keys were inserted.
Values(tools, order) == [i \in 1..Len(order) |-> tools[order[i]]]

\* ToolRegistry.descriptors: the values of `tools` sorted by name.
descriptors(tools, order) == SortedByName(Values(tools, order), Len(order))

\* Tool.schema() of the Tool built for `name`.
SchemaOf(name, short_description) ==
    [type |-> "function",
     function |-> [name |-> name, description |-> short_description,
                   parameters |-> "schema"]]

\* The Tool that Tool.from_callable builds around the instrumented handler.
ToolOf(name, short_description, context, func) ==
    [name |-> name, description |-> short_description, parameters |-> "schema",
     handler |-> [wraps |-> func, name |-> name], context |-> context,
     schema |-> SchemaOf(name, short_description)]

\* ToolDescriptor(...), as register builds it.
ToolDescriptor(name, short_description, context, func) ==
    [name |-> name, short_description |-> short_description, detail |-> "doc",
     tool |-> ToolOf(name, short_description, context, func), source |-> "builtin"]

\* Mutant of NotAllowed: the names are compared as they are written, without
\* casefold().
NotAllowed_AsWritten(allowed, name) ==
    /\ ~allowed.is_none
    /\ name \notin allowed.names
    /\ to_model_name(name) \notin allowed.names

\* The test of register: the allow-set keeps the name out.
NotAllowed(allowed, name) ==
    /\ ~allowed.is_none
    /\ CaseFold(name) \notin allowed.names
    /\ CaseFold(to_model_name(name)) \notin allowed.names

\* Mutant of StoreTool: a name that is registered keeps its descriptor
\* (self._tools.setdefault(name, tool_desc)).
StoreTool_FirstWins(tools, name, tool_desc) ==
    IF name \in DOMAIN tools THEN tools ELSE SetItem(tools, name, tool_desc)

\* self._tools[name] = tool_desc.
StoreTool(tools, name, tool_desc) == SetItem(tools, name, tool_desc)

\* The keys of the dict after self._tools[name] = ...: a new key goes last,
\* a key the dict has keeps its place.
KeysAfterStore(tools, order, name) ==
    IF name \in DOMAIN tools THEN order ELSE Append(order, name)

\* Mutant of has: the name is looked for without regard to case.
has_AnyCase(tools, name) == \E n \in DOMAIN tools : CaseFold(n) = CaseFold(name)

\* ToolRegistry.has.
has(tools, name) == name \in DOMAIN tools

\* ToolRegistry.get: <<descriptor>>, or <<>> for None.
get(tools, name) == IF name \in DOMAIN tools THEN <<tools[name]>> ELSE <<>>

\* Mutant of SeenNames: the loop remembers the registered names
\* (seen_names.add(descriptor.name)).
SeenNames_StorageNames(ds, i) == {ds[k].name : k \in 1..(i - 1)}

\* seen_names when the loop of model_tools reaches descriptor i of ds.
SeenNames(ds, i) == {to_model_name(ds[k].name) : k \in 1..(i - 1)}

\* The Tool model_tools appends for `descriptor`.
ModelTool(descriptor) ==
    [name |-> to_model_name(descriptor.name),
     description |-> descriptor.tool.description,
     parameters |-> descriptor.tool.parameters,
     handler |-> descriptor.tool.handler,
     context |-> descriptor.tool.context]

\* The loop of model_tools over the sorted descriptors ds: it raises
\* ValueError at the first model name it has seen, and returns the tools
\* otherwise.
ModelToolsOf(ds) ==
    IF \E i \in 1..Len(ds) : to_model_name(ds[i].name) \in SeenNames(ds, i)
        THEN [op |-> "model_tools", raised |-> "ValueError", value |-> <<>>]
        ELSE [op |-> "model_tools", raised |-> "",
              value |-> [i \in 1..Len(ds) |-> ModelTool(ds[i])]]

\* ToolRegistry.model_tools.
model_tools(tools, order) == ModelToolsOf(descriptors(tools, order))

\* One row of compact_rows: the f-string, by its parts; `command` is the
\* " (command: ...)" part, <<>> when the row has none.
CompactRow(descriptor, for_model) ==
    [display_name |-> IF for_model THEN to_model_name(descriptor.name)
                                   ELSE descriptor.name,
     command |-> IF for_model /\ to_model_name(descriptor.name) /= descriptor.name
                     THEN <<descriptor.name>> ELSE <<>>,
     short_description |-> descriptor.short_description]

\* The loop of compact_rows over the sorted descriptors ds.
CompactRowsOf(ds, for_model) == [i \in 1..Len(ds) |-> CompactRow(ds[i], for_model)]

\* ToolRegistry.compact_rows.
compact_rows(tools, order, for_model) ==
    CompactRowsOf(descriptors(tools, order), for_model)

\* deepcopy(schema) followed by function["name"] = display_name: the schema
\* detail renders.
RenderedSchema(schema, display_name, for_model) ==
    IF for_model /\ IsDict(schema.function)
        THEN [schema EXCEPT !.function = SetItem(@, "name", display_name)]
        ELSE schema

\* Mutant of StoredSchema: detail writes the name into the schema the tool
\* holds (no deepcopy).
StoredSchema_NoCopy(schema, rendered) == rendered

\* The schema the tool holds once detail has written into `rendered`: the
\* write went to the deep copy.
StoredSchema(schema, rendered) == schema

\* The text detail returns for `descriptor`, by its parts, once `rendered` is
\* the schema it renders; `command_name` is <<>> when the line is absent.
DetailText(descriptor, for_model, rendered) ==
    [name |-> IF for_model THEN to_model_name(descriptor.name) ELSE descriptor.name,
     command_name |-> IF for_model /\ to_model_name(descriptor.name) /= descriptor.name
                          THEN <<descriptor.name>> ELSE <<>>,
     source |-> descriptor.source,
     description |-> descriptor.short_description,
     detail |-> descriptor.detail,
     schema |-> rendered]

\* ToolRegistry.detail for a registered name, `rendered` being the schema it
\* renders: [outcome, tools].
DetailOf(tools, name, for_model, rendered) ==
    [outcome |-> [op |-> "detail", raised |-> "",
                  value |-> DetailText(tools[name], for_model, rendered)],
     tools |-> [tools EXCEPT ![name].tool.schema = StoredSchema(@, rendered)]]

\* ToolRegistry.detail: [outcome, tools]; KeyError for a name get knows not.
detail(tools, name, for_model) ==
    IF get(tools, name) = <<>>
        THEN [outcome |-> [op |-> "detail", raised |-> "KeyError", value |-> <<>>],
              tools |-> tools]
        ELSE DetailOf(tools, name, for_model,
                      RenderedSchema(tools[name].tool.schema,
                                     to_model_name(name), for_model))

\* ToolRegistry(allowed_tools).
RegistryInit ==
    /\ TapeInit
    /\ SanitizeIdle
    /\ TypingIdle
    /\ SplitIdle
    /\ _tools = <<>>
    /\ insertion = <<>>
    /\ _allowed_tools \in AllowSets
    /\ outcome = [op |-> "init", raised |-> "", value |-> <<>>]
    /\ request = <<>>
    /\ latest = <<>>
    /\ executing = EmptyBag

\* registry.register(name=..., short_description=..., context=...)(func).
Register(name, short_description, context, func) ==
    /\ name \in DOMAIN _tools \/ Cardinality(DOMAIN _tools) < MaxTools
    /\ request' = [name |-> name, short_description |-> short_description,
                   context |-> context, replaced |-> get(_tools, name)]
    /\ IF NotAllowed(_allowed_tools, name)
          THEN /\ outcome' = [op |-> "register", raised |-> "", value |-> <<>>]
               /\ UNCHANGED <<_tools, insertion, latest>>
          ELSE /\ _tools' = StoreTool(_tools, name,
                                ToolDescriptor(name, short_description, context, func))
               /\ insertion' = KeysAfterStore(_tools, insertion, name)
               /\ outcome' = [op |-> "register", raised |-> "",
                              value |-> <<ToolDescriptor(name, short_description,
                                                         context, func)>>]
               /\ latest' = SetItem(latest, name,
                                ToolDescriptor(name, short_description, context, func))
    /\ UNCHANGED <<_allowed_tools, executing, tapeVars, sanitizeVars, typingVars, splitVars>>

RegisterTool ==
    \E name \in ToolNames, short_description \in Descriptions :
        Register(name, short_description, FALSE, "func")

\* registry.model_tools().
ModelTools ==
    /\ outcome' = model_tools(_tools, insertion)
    /\ request' = <<>>
    /\ UNCHANGED <<_tools, insertion, _allowed_tools, latest, executing,
                   tapeVars, sanitizeVars, typingVars, splitVars>>

\* registry.has(name).
HasTool ==
    \E name \in ToolNames :
        /\ outcome' = [op |-> "has", raised |-> "", value |-> has(_tools, name)]
        /\ request' = [name |-> name]
        /\ UNCHANGED <<_tools, insertion, _allowed_tools, latest, executing,
                       tapeVars, sanitizeVars, typingVars, splitVars>>

\* registry.get(name).
GetTool ==
    \E name \in ToolNames :
        /\ outcome' = [op |-> "get", raised |-> "", value |-> get(_tools, name)]
        /\ request' = [name |-> name]
        /\ UNCHANGED <<_tools, insertion, _allowed_tools, latest, executing,
                       tapeVars, sanitizeVars, typingVars, splitVars>>

\* registry.descriptors().
Descriptors ==
    /\ outcome' = [op |-> "descriptors", raised |-> "",
                   value |-> descriptors(_tools, insertion)]
    /\ request' = <<>>
    /\ UNCHANGED <<_tools, insertion, _allowed_tools, latest, executing,
                   tapeVars, sanitizeVars, typingVars, splitVars>>

\* registry.compact_rows(for_model=...).
CompactRows ==
    \E for_model \in BOOLEAN :
        /\ outcome' = [op |-> "compact_rows", raised |-> "",
                       value |-> compact_rows(_tools, insertion, for_model)]
        /\ request' = [for_model |-> for_model]
        /\ UNCHANGED <<_tools, insertion, _allowed_tools, latest, executing,
                       tapeVars, sanitizeVars, typingVars, splitVars>>

\* registry.detail(name, for_model=...).
Detail ==
    \E name \in ToolNames, for_model \in BOOLEAN :
        \E r \in {detail(_tools, name, for_model)} :
            /\ outcome' = r.outcome
            /\ _tools' = r.tools
            /\ request' = [name |-> name, for_model |-> for_model]
            /\ UNCHANGED <<insertion, _allowed_tools, latest, executing,
                           tapeVars, sanitizeVars, typingVars, splitVars>>

\* The names to_model_name is given: the tool names, names with two
\* separators, the empty name, and the name it returned last.
ModelNameInputs ==
    ToolNames \cup {NameBDotADotB, NameBUnderADotB, <<>>}
        \cup (IF outcome.op = "to_model_name" THEN {outcome.value} ELSE {})

\* ToolRegistry.to_model_name(name).
ToModelName ==
    \E name \in ModelNameInputs :
        /\ outcome' = [op |-> "to_model_name", raised |-> "",
                       value |-> to_model_name(name)]
        /\ request' = [name |-> name]
        /\ UNCHANGED <<_tools, insertion, _allowed_tools, latest, executing,
                       tapeVars, sanitizeVars, typingVars, splitVars>>

RegistryNext ==
    \/ RegisterTool
    \/ ModelTools
    \/ HasTool
    \/ GetTool
    \/ Descriptors
    \/ CompactRows
    \/ Detail
    \/ ToModelName

RegistrySpec == RegistryInit /\ [][RegistryNext]_vars

\* ------------------------------------------------------------ execute
\* The context argument of execute: the default None, or a ToolContext.
Contexts == {None, PyObj("<ToolContext>")}

\* The kwargs mapping the caller of execute holds: business arguments, with
\* and without a value of its own under the reserved key.
KwargsGiven == {[q |-> Str("x")], [q |-> Str("x"), context |-> Str("stale")]}

\* What a tool body returns.
BodyValue == Str("done")

\* The tools that are registered for execution: a.b requires the context, b
\* does not.
ExecutableTools ==
    {[name |-> NameADotB, context |-> TRUE], [name |-> NameB, context |-> FALSE]}

\* The names execute is called with; a_b is never registered.
ExecuteNames == {NameADotB, NameB, NameAUnderB}

\* Mutant of InjectContext: the context is written before the lookup, for
\* every name and tool.
InjectContext_BeforeLookup(found, kwargs, context) == SetItem(kwargs, "context", context)

\* Mutant of InjectContext: a value the caller put under "context" stays
\* (kwargs.setdefault("context", context)).
InjectContext_SetDefault(found, kwargs, context) ==
    IF found /= <<>> /\ found[1].tool.context /\ "context" \notin DOMAIN kwargs
        THEN SetItem(kwargs, "context", context)
        ELSE kwargs

\* execute, up to the call of the tool: the caller's kwargs once
\* `found` = get(name) was tested and, for a tool that requires the context,
\* kwargs["context"] = context was done.
InjectContext(found, kwargs, context) ==
    IF found /= <<>> /\ found[1].tool.context
        THEN SetItem(kwargs, "context", context)
        ELSE kwargs

\* handler: call_kwargs, the kwargs without the key "context".
CallKwargs(kwargs) == [k \in DOMAIN kwargs \ {"context"} |-> kwargs[k]]

\* handler: context_arg.
ContextArg(kwargs, context) == IF context THEN Get(kwargs, "context") ELSE None

\* Mutant of ForwardedKwargs: the function is called with call_kwargs
\* (func(*args, **call_kwargs)).
ForwardedKwargs_CallKwargs(kwargs) == CallKwargs(kwargs)

\* handler: the keyword arguments of func(*args, **kwargs).
ForwardedKwargs(kwargs) == kwargs

\* handler, from its entry to the call of the function: the start log of
\* _log_tool_call, then func(*args, **kwargs).
HandlerStart(name, kwargs, context) ==
    <<[event |-> "tool.call.start", name |-> name, params |-> CallKwargs(kwargs),
       context |-> ContextArg(kwargs, context)],
      [event |-> "func", name |-> name, kwargs |-> ForwardedKwargs(kwargs)]>>

\* How a tool body ends: it returns, raises an Exception, or raises a
\* BaseException that is no Exception (the task was cancelled).
BodyEndings == {"return", "ToolError", "CancelledError"}

\* `except Exception` catches the error.
IsException(error) == error = "ToolError"

\* The end of the tool body: it returns BodyValue or raises.
BodyEnd(ending) ==
    IF ending = "return" THEN [event |-> "return", value |-> BodyValue]
                         ELSE [event |-> "raise", error |-> ending]

\* Mutant of HandlerFinish: the end log is written after the try statement
\* instead of in its finally clause.
HandlerFinish_NoFinally(events, name, ending) ==
    events \o <<BodyEnd(ending)>>
           \o (IF IsException(ending)
                  THEN <<[event |-> "tool.call.error", name |-> name]>> ELSE <<>>)
           \o (IF ending = "return"
                  THEN <<[event |-> "tool.call.end", name |-> name]>> ELSE <<>>)

\* Mutant of HandlerFinish: a function that raised is called a second time.
HandlerFinish_Retry(events, name, ending) ==
    events \o <<BodyEnd(ending)>>
           \o (IF IsException(ending)
                  THEN <<[event |-> "tool.call.error", name |-> name],
                         events[2], BodyEnd("return")>>
                  ELSE <<>>)
           \o <<[event |-> "tool.call.end", name |-> name]>>

\* handler, from the end of the tool body on: `except Exception` logs the
\* error and raises it again, `finally` logs the end.
HandlerFinish(events, name, ending) ==
    events \o <<BodyEnd(ending)>>
           \o (IF IsException(ending)
                  THEN <<[event |-> "tool.call.error", name |-> name]>> ELSE <<>>)
           \o <<[event |-> "tool.call.end", name |-> name]>>

\* The end of the body the handler saw last.
LastEnd(events) ==
    events[CHOOSE i \in 1..Len(events) :
              /\ events[i].event \in {"return", "raise"}
              /\ \A j \in (i + 1)..Len(events) : events[j].event \notin {"return", "raise"}]

\* What execute returns or raises once the handler went through `events`:
\* the handler returns the value the body returned, or lets the error the
\* body raised pass, and execute passes either on.
ExecuteOutcome(events) ==
    IF LastEnd(events).event = "raise"
        THEN [op |-> "execute", raised |-> LastEnd(events).error, value |-> <<>>]
        ELSE [op |-> "execute", raised |-> "", value |-> <<LastEnd(events).value>>]

\* An execute call: its arguments, the caller's kwargs as they are now, and
\* what the handler did.
ExecuteCall(name, kwargs_given, context, kwargs, events) ==
    [name |-> name, kwargs_given |-> kwargs_given, context |-> context,
     kwargs |-> kwargs, events |-> events]

\* ToolRegistry() with no allow-set.
ExecuteInit == RegistryInit /\ _allowed_tools.is_none

\* The tools are registered: register(name=..., context=...)(func).
RegisterExecutable ==
    \E t \in ExecutableTools : Register(t.name, "d1", t.context, "func")

\* execute(name, kwargs=..., context=...) on a name get knows not: KeyError.
ExecuteNotFound(name, kwargs, context) ==
    /\ get(_tools, name) = <<>>
    /\ outcome' = [op |-> "execute", raised |-> "KeyError", value |-> <<>>]
    /\ request' = ExecuteCall(name, kwargs, context,
                              InjectContext(get(_tools, name), kwargs, context), <<>>)
    /\ UNCHANGED <<_tools, insertion, _allowed_tools, latest, executing,
                   tapeVars, sanitizeVars, typingVars, splitVars>>

\* execute(...) on a registered tool whose function is no coroutine function:
\* the body has returned or raised when the handler is awaited.
ExecuteSync(name, kwargs, context, ending) ==
    /\ get(_tools, name) /= <<>>
    /\ \E k \in {InjectContext(get(_tools, name), kwargs, context)} :
        \E ev \in {HandlerFinish(HandlerStart(name, k, _tools[name].tool.context),
                                 name, ending)} :
            /\ outcome' = ExecuteOutcome(ev)
            /\ request' = ExecuteCall(name, kwargs, context, k, ev)
    /\ UNCHANGED <<_tools, insertion, _allowed_tools, latest, executing,
                   tapeVars, sanitizeVars, typingVars, splitVars>>

\* execute(...) on a registered tool whose function returns an awaitable: the
\* handler awaits it and the call is suspended.
ExecuteAwait(name, kwargs, context) ==
    /\ get(_tools, name) /= <<>>
    /\ BagCardinality(executing) < MaxCalls
    /\ \E k \in {InjectContext(get(_tools, name), kwargs, context)} :
        /\ request' = ExecuteCall(name, kwargs, context, k,
                                  HandlerStart(name, k, _tools[name].tool.context))
        /\ executing' = executing (+) SetToBag({request'})
    /\ outcome' = [op |-> "await", raised |-> "", value |-> <<>>]
    /\ UNCHANGED <<_tools, insertion, _allowed_tools, latest, tapeVars, sanitizeVars, typingVars, splitVars>>

Execute ==
    \E name \in ExecuteNames, kwargs \in KwargsGiven, context \in Contexts :
        \/ ExecuteNotFound(name, kwargs, context)
        \/ \E ending \in BodyEndings : ExecuteSync(name, kwargs, context, ending)
        \/ ExecuteAwait(name, kwargs, context)

\* The awaitable of a suspended call completes: the body returns or raises
\* (or the task is cancelled while it waits), the handler finishes and
\* execute returns or raises.
Resume ==
    \E c \in BagToSet(executing), ending \in BodyEndings :
        \E ev \in {HandlerFinish(c.events, c.name, ending)} :
            /\ executing' = executing (-) SetToBag({c})
            /\ outcome' = ExecuteOutcome(ev)
            /\ request' = [c EXCEPT !.events = ev]
            /\ UNCHANGED <<_tools, insertion, _allowed_tools, latest,
                           tapeVars, sanitizeVars, typingVars, splitVars>>

ExecuteNext ==
    \/ RegisterExecutable
    \/ Execute
    \/ Resume
    \/ HasTool
    \/ GetTool
    \/ Descriptors
    \/ CompactRows
    \/ Detail
    \/ ModelTools

ExecuteSpec == ExecuteInit /\ [][ExecuteNext]_vars

\* ------------------------------------------------------------ telegram, actions
\* start() has built the application and waits on the Event.
TypingInit ==
    /\ TapeInit
    /\ SanitizeIdle
    /\ RegistryIdle
    /\ SplitIdle
    /\ _app = "Application"
    /\ _typing_tasks = <<>>
    /\ tasks = [h \in Handlers |-> "none"]
    /\ handlers = [h \in Handlers |-> IdleHandler]
    /\ stopping = [at |-> "polling", gathered |-> {}]
    /\ _config = AllowAll
    /\ _on_receive = "Callable"

\* _start_typing, up to its first suspension: it either waits for the task it
\* cancelled or, with no task to wait for, creates its own and goes on to await
\* on_receive.
OnTextWith(h, chat_id, r, invocations) ==
    IF r.awaited = NoTask
    THEN CreateTask(h, chat_id, r.tracked, r.states, invocations)
    ELSE /\ _typing_tasks' = r.tracked
         /\ tasks' = r.states
         /\ handlers' = [invocations EXCEPT ![h].at = "_start_typing",
                                           ![h].awaited = r.awaited]

\* Invocation h is given update u.
Arrived(h, u) ==
    [handlers EXCEPT ![h].update = u,
                     ![h].chat_id = IF u.message THEN str(u.chat_id) ELSE ""]

\* _on_text(u) in invocation h, up to its first suspension or its return.
_on_text(h, u, verdict) ==
    IF verdict = "on_receive"
    THEN \E r \in {_stop_typing(_typing_tasks, tasks, str(u.chat_id))} :
             OnTextWith(h, str(u.chat_id), r, Arrived(h, u))
    ELSE /\ handlers' = [Arrived(h, u) EXCEPT
                            ![h].at = "returned",
                            ![h].reply = IF verdict = "return" THEN "" ELSE verdict]
         /\ UNCHANGED <<_typing_tasks, tasks>>

\* An update of PlainUpdates is handled.
OnText ==
    \E h \in Handlers, u \in PlainUpdates :
        /\ _app /= "None"
        /\ handlers[h].at = "idle"
        /\ _on_text(h, u, Verdict(_config, _on_receive, u))
        /\ UNCHANGED <<_app, stopping, _config, _on_receive, tapeVars, sanitizeVars, registryVars, splitVars>>

\* An update of Updates is handled.
OnTextAny ==
    \E h \in Handlers, u \in Updates :
        /\ _app /= "None"
        /\ handlers[h].at = "idle"
        /\ _on_text(h, u, Verdict(_config, _on_receive, u))
        /\ UNCHANGED <<_app, stopping, _config, _on_receive, tapeVars, sanitizeVars, registryVars, splitVars>>

\* _start_typing resumes: the task it awaited is done, it creates its own task
\* and stores it under the chat, whatever the chat holds by now.
StartTypingResume ==
    \E h \in Handlers :
        /\ handlers[h].at = "_start_typing"
        /\ IsDone(tasks[handlers[h].awaited])
        /\ CreateTask(h, handlers[h].chat_id, _typing_tasks, tasks, handlers)
        /\ UNCHANGED <<_app, stopping, _config, _on_receive, tapeVars, sanitizeVars, registryVars, splitVars>>

\* on_receive returned or raised: the finally clause runs _stop_typing.
ReceivedWith(h, r) ==
    /\ _typing_tasks' = r.tracked
    /\ tasks' = r.states
    /\ handlers' = [handlers EXCEPT ![h].at = IF r.awaited = NoTask THEN "returned"
                                              ELSE "_stop_typing",
                                    ![h].awaited = r.awaited]

Received ==
    \E h \in Handlers :
        /\ handlers[h].at = "on_receive"
        /\ \E r \in {_stop_typing(_typing_tasks, tasks, handlers[h].chat_id)} :
               ReceivedWith(h, r)
        /\ UNCHANGED <<_app, stopping, _config, _on_receive, tapeVars, sanitizeVars, registryVars, splitVars>>

\* The _stop_typing of the finally clause resumes and _on_text returns.
StopTypingResume ==
    \E h \in Handlers :
        /\ handlers[h].at = "_stop_typing"
        /\ IsDone(tasks[handlers[h].awaited])
        /\ handlers' = [handlers EXCEPT ![h].at = "returned", ![h].awaited = NoTask]
        /\ UNCHANGED <<_app, _typing_tasks, tasks, stopping,
                       _config, _on_receive, tapeVars, sanitizeVars, registryVars, splitVars>>

\* _typing_loop gets the CancelledError and returns.
TypingLoopCancelled ==
    \E t \in Handlers :
        /\ tasks[t] = "cancelling"
        /\ tasks' = [tasks EXCEPT ![t] = "cancelled"]
        /\ UNCHANGED <<_app, _typing_tasks, handlers, stopping,
                       _config, _on_receive, tapeVars, sanitizeVars, registryVars, splitVars>>

\* send_chat_action raises: _typing_loop logs the exception and returns.
TypingLoopError ==
    \E t \in Handlers :
        /\ tasks[t] = "running"
        /\ tasks' = [tasks EXCEPT ![t] = "failed"]
        /\ UNCHANGED <<_app, _typing_tasks, handlers, stopping,
                       _config, _on_receive, tapeVars, sanitizeVars, registryVars, splitVars>>

\* _typing_loop finds self._app is None and leaves its loop.
TypingLoopExit ==
    \E t \in Handlers :
        /\ tasks[t] = "running"
        /\ _app = "None"
        /\ tasks' = [tasks EXCEPT ![t] = "exited"]
        /\ UNCHANGED <<_app, _typing_tasks, handlers, stopping,
                       _config, _on_receive, tapeVars, sanitizeVars, registryVars, splitVars>>

\* The tasks the channel holds: self._typing_tasks.values().
TrackedTasks(tracked) == {tracked[c] : c \in DOMAIN tracked}

\* start() is cancelled: its finally clause cancels the tasks it holds and
\* gathers them; with no task to gather it goes straight on to clear().
Stop ==
    /\ stopping.at = "polling"
    /\ tasks' = [t \in Handlers |-> IF t \in TrackedTasks(_typing_tasks)
                                    THEN cancel(tasks[t]) ELSE tasks[t]]
    /\ IF _typing_tasks = <<>>
       THEN stopping' = [at |-> "stop", gathered |-> {}]
       ELSE stopping' = [at |-> "gather", gathered |-> TrackedTasks(_typing_tasks)]
    /\ UNCHANGED <<_app, _typing_tasks, handlers, _config, _on_receive, tapeVars, sanitizeVars, registryVars, splitVars>>

\* The gather returns: every task it was given is done; the dict is cleared.
Gathered ==
    /\ stopping.at = "gather"
    /\ \A t \in stopping.gathered : IsDone(tasks[t])
    /\ _typing_tasks' = <<>>
    /\ stopping' = [at |-> "stop", gathered |-> {}]
    /\ UNCHANGED <<_app, tasks, handlers, _config, _on_receive, tapeVars, sanitizeVars, registryVars, splitVars>>

\* The updater and the application are stopped, and self._app = None.
Stopped ==
    /\ stopping.at = "stop"
    /\ _app' = "None"
    /\ stopping' = [at |-> "stopped", gathered |-> {}]
    /\ UNCHANGED <<_typing_tasks, tasks, handlers, _config, _on_receive, tapeVars, sanitizeVars, registryVars, splitVars>>

TypingNext ==
    \/ OnText
    \/ StartTypingResume
    \/ Received
    \/ StopTypingResume
    \/ TypingLoopCancelled
    \/ TypingLoopError
    \/ TypingLoopExit
    \/ Stop
    \/ Gathered
    \/ Stopped

TypingSpec == TypingInit /\ [][TypingNext]_vars

\* The channel polls, with a config that may restrict chats and senders.
FilterInit ==
    /\ TapeInit
    /\ SanitizeIdle
    /\ RegistryIdle
    /\ SplitIdle
    /\ _app = "Application"
    /\ _typing_tasks = <<>>
    /\ tasks = [h \in Handlers |-> "none"]
    /\ handlers = [h \in Handlers |-> IdleHandler]
    /\ stopping = [at |-> "polling", gathered |-> {}]
    /\ _config \in Configs
    /\ _on_receive = "Callable"

FilterNext ==
    \/ OnTextAny
    \/ StartTypingResume
    \/ Received
    \/ StopTypingResume
    \/ TypingLoopCancelled

FilterSpec == FilterInit /\ [][FilterNext]_vars

\* ------------------------------------------------------------ _split_message, actions
\* _split_message(full_text, limit) is called.
SplitInit ==
    /\ TapeInit
    /\ SanitizeIdle
    /\ RegistryIdle
    /\ TypingIdle
    /\ full_text \in Texts
    /\ limit \in 1..MaxLimit
    /\ text = full_text
    /\ chunks = <<>>
    /\ split_pc = "call"

\* The test before the loop: a text that fits is returned as the only chunk.
SplitCall ==
    /\ split_pc = "call"
    /\ IF Len(text) <= limit
       THEN chunks' = <<text>> /\ split_pc' = "returned"
       ELSE chunks' = <<>> /\ split_pc' = "while"
    /\ UNCHANGED <<full_text, text, limit, tapeVars, sanitizeVars, registryVars, typingVars>>

\* One pass of `while text`, the text cut at split_at.
SplitCut(split_at) ==
    /\ chunks' = Append(chunks, Before(text, split_at))
    /\ text' = lstrip(From(text, split_at), "\n")
    /\ split_pc' = "while"

\* One pass of `while text`: the rest is appended when it fits (and the loop is
\* left), else a chunk is cut off.
SplitLoop ==
    /\ split_pc = "while"
    /\ text /= <<>>
    /\ IF Len(text) <= limit
       THEN chunks' = Append(chunks, text) /\ split_pc' = "returned" /\ text' = text
       ELSE SplitCut(SplitAt(text, limit))
    /\ UNCHANGED <<full_text, limit, tapeVars, sanitizeVars, registryVars, typingVars>>

\* `while text` finds the text empty: return chunks.
SplitReturn ==
    /\ split_pc = "while"
    /\ text = <<>>
    /\ split_pc' = "returned"
    /\ UNCHANGED <<full_text, text, limit, chunks,
                   tapeVars, sanitizeVars, registryVars, typingVars>>

SplitNext == SplitCall \/ SplitLoop \/ SplitReturn

\* The function is synchronous: once called it runs until it returns.
SplitSpec == SplitInit /\ [][SplitNext]_vars /\ WF_vars(SplitNext)

\* ------------------------------------------------------------ claims, tape
IsToolCall(e) == e.kind = "tool_call"
IsToolResult(e) == e.kind = "tool_result"

\* A tool_call entry whose payload is a mapping that holds a list of calls.
HasCallList(e) == IsToolCall(e) /\ IsDict(e.payload) /\ IsList(Get(e.payload, "calls"))

\* A tool_call entry whose calls are an empty list, not a list, or absent.
HasNoCalls(e) ==
    /\ IsToolCall(e)
    /\ IsDict(e.payload)
    /\ (IsList(Get(e.payload, "calls")) => e.payload.calls.items = <<>>)

\* A tool_result entry whose payload is a mapping that holds a list of results.
HasResultList(e) ==
    IsToolResult(e) /\ IsDict(e.payload) /\ IsList(Get(e.payload, "results"))

\* A tool_result entry whose payload is a mapping whose results are no list.
HasNoResultList(e) ==
    IsToolResult(e) /\ IsDict(e.payload) /\ ~IsList(Get(e.payload, "results"))

Unpaired(m) == "tool_call_id" \notin DOMAIN m /\ "name" \notin DOMAIN m

AllUnpaired(ms) == \A i \in 1..Len(ms) : Unpaired(ms[i])

IsToolMessage(m) == m.role = Str("tool")

\* The id and the function name a call item has to offer, if any.
HasId(item) == IsDict(item) /\ IsStr(Get(item, "id")) /\ Truthy(Get(item, "id"))
HasName(item) ==
    /\ IsDict(item)
    /\ IsDict(Get(item, "function"))
    /\ IsStr(Get(item.function, "name"))
    /\ Truthy(Get(item.function, "name"))

\* Message m carries the tool_call_id and the name of the call `item`.
Carries(m, item) ==
    /\ HasId(item) => "tool_call_id" \in DOMAIN m /\ m.tool_call_id = item.id
    /\ HasName(item) => "name" \in DOMAIN m /\ m.name = item.function.name

\* Entry j is a tool_call entry with a list of calls and entry j + 1 a
\* tool_result entry with as many results.
MatchedPair(j) ==
    /\ HasCallList(original[j])
    /\ HasResultList(original[j + 1])
    /\ Len(original[j].payload.calls.items) = Len(original[j + 1].payload.results.items)

PairedByPosition(j) ==
    /\ Len(emitted[j + 1]) = Len(original[j].payload.calls.items)
    /\ \A i \in 1..Len(emitted[j + 1]) :
            Carries(emitted[j + 1][i], original[j].payload.calls.items[i])

AllMappings(items) == \A i \in 1..Len(items) : IsDict(items[i])

\* C1 as stated: whenever a tool_call entry is immediately followed by a
\* tool_result entry with as many results as the entry has calls, the i-th
\* tool message of the result entry carries the tool_call_id and the name of
\* the i-th call of the entry.
C1_Original ==
    \A j \in 1..(Len(original) - 1) : MatchedPair(j) => PairedByPosition(j)

\* C1 as amended: the same, for a tool_call entry whose calls are all
\* mappings (an item that is no mapping is dropped, and shifts the pairing).
C1_PairedByPosition ==
    \A j \in 1..(Len(original) - 1) :
        (MatchedPair(j) /\ AllMappings(original[j].payload.calls.items))
            => PairedByPosition(j)

\* C1 witness: two calls with different ids and names met two results.
C1_Witness ==
    /\ Len(original) >= 2
    /\ MatchedPair(1)
    /\ original[1].payload.calls.items = <<CallA, CallB>>
    /\ emitted[2][1].tool_call_id = Str("c1")
    /\ emitted[2][2].name = Str("g")

\* C2: a tool_call entry whose calls list is empty (or no list) appends no
\* message and leaves the pending-calls buffer empty; the messages of the
\* tool_result entry that follows it carry no tool_call_id and no name,
\* whatever calls an earlier tool_call entry held.
C2_EmptyCallsClearPending ==
    \A j \in 1..Len(original) :
        HasNoCalls(original[j]) =>
            /\ emitted[j] = <<>>
            /\ (j = Len(original) => pending_calls = <<>>)
            /\ (j < Len(original) /\ HasResultList(original[j + 1])
                    => /\ Len(emitted[j + 1]) = Len(original[j + 1].payload.results.items)
                       /\ AllUnpaired(emitted[j + 1]))

\* C2 witness: calls were pending, an empty tool_call entry came, and the
\* results after it were emitted unpaired.
C2_Witness ==
    /\ Len(original) = 3
    /\ HasCallList(original[1]) /\ emitted[1] /= <<>>
    /\ HasNoCalls(original[2])
    /\ HasResultList(original[3]) /\ emitted[3] /= <<>>
    /\ AllUnpaired(emitted[3])

\* The step is one iteration of the first run's loop, on a new last entry.
Iterated == pc = "loop" /\ Len(original') = Len(original) + 1

\* C3: a tool_result entry with k results met by a pending-calls buffer of
\* length n < k appends exactly k tool messages, and the messages at the
\* positions from n on (counted from 0) have no tool_call_id and no name.
C3_ExcessResultsUnpaired ==
    [][(Iterated /\ HasResultList(original'[Len(original')])
            /\ Len(original'[Len(original')].payload.results.items) > Len(pending_calls))
        => /\ Len(emitted'[Len(emitted')])
                = Len(original'[Len(original')].payload.results.items)
           /\ messages' = messages \o emitted'[Len(emitted')]
           /\ \A i \in 1..Len(emitted'[Len(emitted')]) :
                /\ IsToolMessage(emitted'[Len(emitted')][i])
                /\ i > Len(pending_calls) => Unpaired(emitted'[Len(emitted')][i])
      ]_vars

\* C3 witness: three results met two pending calls; the first two messages
\* are paired and the third is not.
C3_Witness ==
    /\ Len(original) = 2
    /\ HasCallList(original[1])
    /\ Len(original[1].payload.calls.items) = 2
    /\ Len(emitted[2]) = 3
    /\ "tool_call_id" \in DOMAIN emitted[2][2]
    /\ Unpaired(emitted[2][3])

\* C4 as stated: a tool_result entry whose results are no list appends no
\* message and leaves the pending-calls buffer as it was.
C4_Original ==
    [][(Iterated /\ HasNoResultList(original'[Len(original')]))
        => messages' = messages /\ pending_calls' = pending_calls]_vars

\* C4 as amended: a tool_result entry whose results are no list appends no
\* message and empties the pending-calls buffer; the messages of a
\* tool_result entry that follows it carry no tool_call_id and no name.
C4_NonListResultsClearPending ==
    \A j \in 1..Len(original) :
        HasNoResultList(original[j]) =>
            /\ emitted[j] = <<>>
            /\ (j = Len(original) => pending_calls = <<>>)
            /\ (j < Len(original) /\ HasResultList(original[j + 1])
                    => /\ Len(emitted[j + 1]) = Len(original[j + 1].payload.results.items)
                       /\ AllUnpaired(emitted[j + 1]))

\* C4 witness: calls were pending, a tool_result entry without a list came,
\* and the results after it were emitted unpaired.
C4_Witness ==
    /\ Len(original) = 3
    /\ HasCallList(original[1]) /\ emitted[1] /= <<>>
    /\ HasNoResultList(original[2])
    /\ HasResultList(original[3]) /\ emitted[3] /= <<>>
    /\ AllUnpaired(emitted[3])

\* function.arguments of a call is a str that holds a JSON object.
ArgumentsAreJsonObject(c) ==
    /\ IsDict(Get(c, "function"))
    /\ IsStr(Get(c.function, "arguments"))
    /\ JsonLoads(c.function.arguments.val) = "dict"

\* C5 as stated: in every assistant message that compile emits, every item
\* of tool_calls has a function.arguments that is a str holding a JSON
\* object, whatever the stored item held.
C5_Original ==
    \A j \in 1..Len(emitted) :
        HasCallList(original[j]) =>
            \A k \in 1..Len(emitted[j]) :
                \A i \in 1..Len(emitted[j][k].tool_calls.items) :
                    ArgumentsAreJsonObject(emitted[j][k].tool_calls.items[i])

\* C7 as stated: compile raises on no tape.
C7_Original == pc /= "raised"

\* C8 as stated: once compile has returned, the entries are what they were.
C8_Original == pc = "returned" => entries = original

\* C9: a second compile of the same entries, which sees them as the first
\* left them, returns a message list equal to the one the first returned.
\* `messages` is the first list as it was when it was returned; the function
\* mappings it shares with the entries can only be rewritten by the second
\* run to what the second list holds, so equality here is the stronger one.
C9_Deterministic == pc = "returned2" => messages2 = messages

\* C9 witness: the second run returned, on entries the first run had
\* rewritten, a list that holds messages.
C9_Witness ==
    /\ pc = "returned2"
    /\ entries /= original
    /\ Len(messages2) >= 2

\* Message m, emitted for the result at position i (from 1), has the
\* tool_call_id exactly if `pending` has a call at position i whose id is a
\* non-empty str, and the name exactly if that call has a function mapping
\* whose name is a non-empty str; the fields are those of that call.
FieldsMatch(m, pending, i) ==
    /\ ("tool_call_id" \in DOMAIN m) = (i <= Len(pending) /\ HasId(pending[i]))
    /\ "tool_call_id" \in DOMAIN m => m.tool_call_id = pending[i].id
    /\ ("name" \in DOMAIN m) = (i <= Len(pending) /\ HasName(pending[i]))
    /\ "name" \in DOMAIN m => m.name = pending[i].function.name

\* The messages ms pair the results by position with the calls of `pending`.
PairedWith(ms, pending) == \A i \in 1..Len(ms) : FieldsMatch(ms[i], pending, i)

\* The mapping items of a list of call items, in their order.
RECURSIVE MappingItems(_)
MappingItems(items) ==
    IF items = <<>> THEN <<>>
    ELSE (IF IsDict(Head(items)) THEN <<Head(items)>> ELSE <<>>)
            \o MappingItems(Tail(items))

\* The calls a tool_call entry offers for pairing: the mapping items of its
\* calls list, none when it has no list.
CallsOf(e) ==
    IF HasCallList(e) THEN MappingItems(e.payload.calls.items) ELSE <<>>

\* C23: when two tool_call entries come one after the other and a
\* tool_result entry with a list of results follows, every result yields one
\* message, and the messages are paired by position with the calls of the
\* later tool_call entry (its items that are mappings) and with nothing
\* else: a result beyond the later entry's calls has no tool_call_id and no
\* name, whatever the earlier entry held.
C23_LaterCallsReplacePending ==
    \A j \in 1..(Len(original) - 2) :
        (/\ IsToolCall(original[j])
         /\ IsToolCall(original[j + 1])
         /\ HasResultList(original[j + 2]))
            => /\ Len(emitted[j + 2]) = Len(original[j + 2].payload.results.items)
               /\ PairedWith(emitted[j + 2], CallsOf(original[j + 1]))

\* C23 witness: two calls, then one call, then two results: the first
\* message carries the id of the later entry's call and the second nothing.
C23_Witness ==
    /\ Len(original) = 3
    /\ original[1].payload = [calls |-> List(<<CallA, CallB>>)]
    /\ original[2].payload = [calls |-> List(<<CallE>>)]
    /\ Len(emitted[3]) = 2
    /\ emitted[3][1].tool_call_id = Str("c4")
    /\ Unpaired(emitted[3][2])

\* C24: once a tool_result entry with a list of results is processed the
\* pending-calls buffer is empty: every result of a tool_result entry that
\* follows it directly yields a message without tool_call_id and name.
C24_ResultsClearPending ==
    \A j \in 1..Len(original) :
        HasResultList(original[j]) =>
            /\ j = Len(original) => pending_calls = <<>>
            /\ (j < Len(original) /\ HasResultList(original[j + 1]))
                    => /\ Len(emitted[j + 1])
                            = Len(original[j + 1].payload.results.items)
                       /\ AllUnpaired(emitted[j + 1])

\* C24 witness: two calls were pending, a tool_result entry with one result
\* took the first, and the results of the next tool_result entry came out
\* unpaired.
C24_Witness ==
    /\ Len(original) = 3
    /\ original[1].payload = [calls |-> List(<<CallA, CallB>>)]
    /\ original[2].payload = [results |-> List(<<Str("ok")>>)]
    /\ emitted[2][1].tool_call_id = Str("c1")
    /\ HasResultList(original[3])
    /\ Len(emitted[3]) >= 2
    /\ AllUnpaired(emitted[3])

\* The concatenation of the sequences of a sequence.
RECURSIVE Flatten(_)
Flatten(ss) == IF ss = <<>> THEN <<>> ELSE Head(ss) \o Flatten(Tail(ss))

\* What the entry e contributed, ms, is what the claim says of its kind.
Contribution(e, ms) ==
    IF e.kind = "message"
        THEN ms = (IF IsDict(e.payload) THEN <<e.payload>> ELSE <<>>)
    ELSE IF IsToolCall(e)
        THEN IF CallsOf(e) /= <<>>
                THEN /\ Len(ms) = 1
                     /\ ms[1].role = Str("assistant")
                     /\ IsList(ms[1].tool_calls)
                     /\ Len(ms[1].tool_calls.items) = Len(CallsOf(e))
                ELSE ms = <<>>
    ELSE IF HasResultList(e)
        THEN /\ Len(ms) = Len(e.payload.results.items)
             /\ \A i \in 1..Len(ms) :
                    /\ IsToolMessage(ms[i])
                    /\ ms[i].content = Str(_render_tool_result(e.payload.results.items[i]))
    ELSE ms = <<>>

\* C25: as long as compile has not raised, its message list is the
\* concatenation, in entry order, of what each entry contributed: a copy of
\* the payload for a message entry whose payload is a mapping, one assistant
\* message for a tool_call entry with a mapping among its calls, one tool
\* message per result, in result order, for a tool_result entry with a list
\* of results, and nothing for any other entry.
C25_OrderPreserved ==
    pc /= "raised" =>
        /\ messages = Flatten(emitted)
        /\ \A j \in 1..Len(original) : Contribution(original[j], emitted[j])

\* C25 witness: a message entry, a tool_call entry and a tool_result entry
\* with two results were compiled to four messages.
C25_Witness ==
    /\ pc = "returned"
    /\ Len(original) = 3
    /\ original[1].kind = "message" /\ IsDict(original[1].payload)
    /\ IsToolCall(original[2])
    /\ HasResultList(original[3])
    /\ Len(messages) = 4
    /\ messages[1] = original[1].payload
    /\ messages[2].role = Str("assistant")
    /\ IsToolMessage(messages[4])

\* C26: the message of the result at position i has the tool_call_id
\* exactly if the pending-calls buffer has a call at i whose id is a
\* non-empty str, and the name exactly if that call's function.name is a
\* non-empty str, each field without regard to the other.
C26_FieldsIndependent ==
    [][(Iterated /\ HasResultList(original'[Len(original')]))
        => PairedWith(emitted'[Len(emitted')], pending_calls)]_vars

\* C26 witness: a call with a name and no id and a call with an id and no
\* function met two results: the first message has the name only, the
\* second the tool_call_id only.
C26_Witness ==
    /\ Len(original) = 2
    /\ original[1].payload = [calls |-> List(<<CallH, CallI>>)]
    /\ Len(emitted[2]) = 2
    /\ DOMAIN emitted[2][1] = {"role", "content", "name"}
    /\ DOMAIN emitted[2][2] = {"role", "content", "tool_call_id"}

\* An entry that is neither a tool_call nor a tool_result entry.
IsPlain(e) == e.kind \notin {"tool_call", "tool_result"}

\* C27: an entry of kind message or of an unknown kind leaves the
\* pending-calls buffer as it was, and an entry of unknown kind emits
\* nothing: the results of a tool_result entry that comes after a tool_call
\* entry and one such entry are paired by position with the calls of that
\* tool_call entry.
C27_PlainEntriesKeepPending ==
    /\ [](\A j \in 1..Len(original) :
            /\ original[j].kind \notin {"message", "tool_call", "tool_result"}
                    => emitted[j] = <<>>
            /\ (/\ j + 2 <= Len(original)
                /\ IsToolCall(original[j])
                /\ IsPlain(original[j + 1])
                /\ HasResultList(original[j + 2]))
                    => /\ Len(emitted[j + 2])
                            = Len(original[j + 2].payload.results.items)
                       /\ PairedWith(emitted[j + 2], CallsOf(original[j])))
    /\ [][(Iterated /\ IsPlain(original'[Len(original')]))
            => pending_calls' = pending_calls]_vars

\* C27 witness: two calls, an entry of unknown kind, two results: the
\* messages carry the ids of the two calls.
C27_Witness ==
    /\ Len(original) = 3
    /\ original[1].payload = [calls |-> List(<<CallA, CallB>>)]
    /\ original[2].kind = "anchor"
    /\ Len(emitted[3]) = 2
    /\ emitted[3][1].tool_call_id = Str("c1")
    /\ emitted[3][2].tool_call_id = Str("c2")

\* ------------------------------------------------------------ claims, sanitizer
\* function.arguments of a call item (None when there is none).
Arguments(c) ==
    IF IsDict(Get(c, "function")) THEN Get(c.function, "arguments") ELSE None

\* C6: sanitizing a sanitized call item gives the function.arguments value
\* that sanitizing the item once gave; arguments that are a str json.loads
\* rejects (the empty str too) or absent are "{}" after one application.
C6_SanitizeIdempotent ==
    sanitize_pc = "twice" =>
        /\ Arguments(resanitized) = Arguments(sanitized)
        /\ (IsDict(Get(given, "function"))
                /\ Arguments(given) \in {None, Str("not json"), Str("")})
            => Arguments(sanitized) = Str("{}")

\* C6 witness: arguments stored as a mapping were encoded by the first
\* application and taken as they were by the second.
C6_Witness ==
    /\ sanitize_pc = "twice"
    /\ Arguments(given) = DictQX
    /\ Arguments(sanitized) = Str("{\"q\": \"x\"}")
    /\ resanitized = sanitized

\* ------------------------------------------------------------ claims, registry
\* Two different registered names have the same model name.
ModelNamesCollide ==
    \E n \in DOMAIN _tools, m \in DOMAIN _tools :
        n /= m /\ to_model_name(n) = to_model_name(m)

\* C10: model_tools raises the configuration error and returns no list
\* whenever two registered names have the same model name; otherwise it
\* returns one tool per descriptor, the tool names being pairwise distinct
\* and the model names of the registered names.
C10_ModelToolsCollision ==
    outcome.op = "model_tools" =>
        IF ModelNamesCollide
            THEN outcome.raised = "ValueError" /\ outcome.value = <<>>
            ELSE /\ outcome.raised = ""
                 /\ Len(outcome.value) = Cardinality(DOMAIN _tools)
                 /\ \A i \in 1..Len(outcome.value), j \in 1..Len(outcome.value) :
                        i /= j => outcome.value[i].name /= outcome.value[j].name
                 /\ {outcome.value[i].name : i \in 1..Len(outcome.value)}
                        = {to_model_name(n) : n \in DOMAIN _tools}

\* C10 witness: a.b and a_b are both registered and model_tools raised.
C10_Witness ==
    /\ outcome.op = "model_tools"
    /\ {NameADotB, NameAUnderB} \subseteq DOMAIN _tools
    /\ outcome.raised = "ValueError"

\* The register call that returned `value` stored `name` in `tools`: it
\* returned a descriptor of that name and the registry holds it.
Stored(value, tools, name) ==
    /\ Len(value) = 1
    /\ value[1].name = name
    /\ name \in DOMAIN tools
    /\ tools[name] = value[1]

\* C11 as stated: a register call stores the tool when there is no allow-set
\* or the name or its model name, as written, is in the allow-set, and
\* otherwise returns None and leaves the mapping as it was.
C11_Original ==
    [][outcome'.op = "register" =>
        IF \/ _allowed_tools.is_none
           \/ request'.name \in _allowed_tools.names
           \/ to_model_name(request'.name) \in _allowed_tools.names
            THEN Stored(outcome'.value, _tools', request'.name)
            ELSE outcome'.value = <<>> /\ _tools' = _tools]_vars

\* The casefolded name, or the casefolded model name, is an entry of the
\* allow-set.
FoldedNameAllowed(name) ==
    \E e \in _allowed_tools.names :
        e = CaseFold(name) \/ e = CaseFold(to_model_name(name))

\* C11: a register call stores the tool and returns its descriptor when
\* there is no allow-set or the casefolded name or casefolded model name is
\* in the allow-set, touching no other name; otherwise it returns None and
\* leaves the mapping as it was.
C11_AllowSetGate ==
    [][outcome'.op = "register" =>
        IF _allowed_tools.is_none \/ FoldedNameAllowed(request'.name)
            THEN /\ Stored(outcome'.value, _tools', request'.name)
                 /\ DOMAIN _tools' = DOMAIN _tools \cup {request'.name}
                 /\ \A n \in DOMAIN _tools : n /= request'.name => _tools'[n] = _tools[n]
            ELSE outcome'.value = <<>> /\ _tools' = _tools]_vars

\* C11 witness: under the allow-set {a_b}, a.b was stored through its model
\* name and A.b through its casefolded model name, and the registration of b
\* was skipped.
C11_Witness ==
    /\ _allowed_tools = [is_none |-> FALSE, names |-> {NameAUnderB}]
    /\ DOMAIN _tools = {NameADotB, NameUpperADotB}
    /\ outcome.op = "register"
    /\ request.name = NameB
    /\ outcome.value = <<>>

\* C12 as stated: with an allow-set, register stores the tool if and only if
\* the name or its model name equals an entry of the allow-set when both
\* sides are compared without regard to case.
C12_Original ==
    (outcome.op = "register" /\ ~_allowed_tools.is_none) =>
        (Stored(outcome.value, _tools, request.name) <=>
            \E e \in _allowed_tools.names :
                \/ CaseFold(e) = CaseFold(request.name)
                \/ CaseFold(e) = CaseFold(to_model_name(request.name)))

\* C14: the registry holds one descriptor per registered name, the one the
\* latest register call that stored the name returned; get returns it, and a
\* register call that stores a name replaces what the name held.
C14_LastWriteWins ==
    /\ DOMAIN _tools = DOMAIN latest
    /\ \A n \in DOMAIN _tools : _tools[n] = latest[n] /\ _tools[n].name = n
    /\ Len(descriptors(_tools, insertion)) = Cardinality(DOMAIN latest)
    /\ outcome.op = "get" =>
            outcome.value = IF request.name \in DOMAIN latest
                                THEN <<latest[request.name]>> ELSE <<>>
    /\ (outcome.op = "register" /\ outcome.value /= <<>>) =>
            get(_tools, request.name) = outcome.value

\* C14 witness: a.b was registered, b after it, and a.b registered again with
\* another description: the registry holds the later descriptor of a.b at
\* the place of the earlier one.
C14_Witness ==
    /\ outcome.op = "register"
    /\ request.name = NameADotB
    /\ request.replaced /= <<>>
    /\ request.replaced /= outcome.value
    /\ insertion = <<NameADotB, NameB>>
    /\ _tools[NameADotB] = outcome.value[1]

\* C15: descriptors returns every registered descriptor once, the names
\* strictly ascending by code points, whatever the order of registration.
C15_DescriptorsSorted ==
    outcome.op = "descriptors" =>
        /\ Len(outcome.value) = Cardinality(DOMAIN _tools)
        /\ {outcome.value[i] : i \in 1..Len(outcome.value)}
                = {_tools[n] : n \in DOMAIN _tools}
        /\ \A i \in 1..Len(outcome.value), j \in 1..Len(outcome.value) :
                i < j => StrLess(outcome.value[i].name, outcome.value[j].name)

\* C15 witness: b, a_b and A.b were registered in this order and descriptors
\* returned A.b, a_b, b.
C15_Witness ==
    /\ outcome.op = "descriptors"
    /\ insertion = <<NameB, NameAUnderB, NameUpperADotB>>
    /\ [i \in 1..Len(outcome.value) |-> outcome.value[i].name]
            = <<NameUpperADotB, NameAUnderB, NameB>>

\* C16: to_model_name returns, for every name, a name of the same length
\* without ".", which to_model_name maps to itself; a name without "." is
\* returned as it is.
C16_ModelNameIdempotent ==
    outcome.op = "to_model_name" =>
        /\ Len(outcome.value) = Len(request.name)
        /\ \A i \in 1..Len(outcome.value) : outcome.value[i] /= "."
        /\ to_model_name(outcome.value) = outcome.value
        /\ (\A i \in 1..Len(request.name) : request.name[i] /= ".")
                => outcome.value = request.name

\* C16 witness: to_model_name was given b_a_b, which it had returned for
\* b.a.b, and returned it.
C16_Witness ==
    /\ outcome.op = "to_model_name"
    /\ request.name = to_model_name(NameBDotADotB)
    /\ request.name /= NameBDotADotB
    /\ outcome.value = request.name

\* C21: detail with for_model=True renders the model name, also inside the
\* schema, and the schema every registered tool holds keeps the registered
\* name, so that detail with for_model=False renders the registered name;
\* detail of a name that is not registered raises KeyError and returns
\* nothing.
C21_DetailCopiesSchema ==
    /\ \A n \in DOMAIN _tools : _tools[n].tool.schema.function.name = n
    /\ outcome.op = "detail" =>
        IF request.name \notin DOMAIN _tools
            THEN outcome.raised = "KeyError" /\ outcome.value = <<>>
            ELSE /\ outcome.raised = ""
                 /\ outcome.value.name
                        = (IF request.for_model THEN to_model_name(request.name)
                                                ELSE request.name)
                 /\ outcome.value.schema.function.name = outcome.value.name
                 /\ outcome.value.command_name
                        = (IF outcome.value.name /= request.name
                               THEN <<request.name>> ELSE <<>>)

\* C21 witness: detail(a.b, for_model=True) rendered a_b, in the schema too,
\* and the schema the tool holds still says a.b.
C21_Witness ==
    /\ outcome.op = "detail"
    /\ request.name = NameADotB
    /\ request.for_model
    /\ outcome.raised = ""
    /\ outcome.value.schema.function.name = NameAUnderB
    /\ _tools[NameADotB].tool.schema.function.name = NameADotB

\* C22: for every name, has is true exactly if get returns a descriptor,
\* whose name is then the name looked up; get returns None, and raises
\* nothing, for a name that is not registered.
C22_HasIffGet ==
    /\ \A n \in ToolNames :
        /\ has(_tools, n) = (get(_tools, n) /= <<>>)
        /\ get(_tools, n) /= <<>> => get(_tools, n)[1].name = n
    /\ outcome.op = "has" => outcome.value = (get(_tools, request.name) /= <<>>)
    /\ outcome.op = "get" =>
        /\ outcome.raised = ""
        /\ (outcome.value /= <<>>) = (request.name \in DOMAIN _tools)
        /\ outcome.value /= <<>> => outcome.value[1].name = request.name

\* C22 witness: a.b is registered, A.b is not, and get(A.b) returned None.
C22_Witness ==
    /\ outcome.op = "get"
    /\ request.name = NameUpperADotB
    /\ outcome.value = <<>>
    /\ outcome.raised = ""
    /\ NameADotB \in DOMAIN _tools

\* ------------------------------------------------------------ claims, execute
\* The last operation is an execute call that went through the handler and
\* has returned or raised.
Executed == outcome.op = "execute" /\ outcome.raised /= "KeyError"

\* The kinds of a sequence of events.
EventKinds(events) == [i \in 1..Len(events) |-> events[i].event]

\* The events of the given kind.
EventsOf(events, kind) == {i \in 1..Len(events) : events[i].event = kind}

\* C13: an execute call on a name that is not registered raises KeyError
\* without calling a handler or a tool body, and leaves the registry
\* mapping, the suspended calls and the caller's kwargs as they were.
C13_ExecuteNotFound ==
    [][(outcome'.op = "execute" /\ request'.name \notin DOMAIN _tools) =>
        /\ outcome'.raised = "KeyError"
        /\ outcome'.value = <<>>
        /\ request'.events = <<>>
        /\ request'.kwargs = request'.kwargs_given
        /\ _tools' = _tools
        /\ insertion' = insertion
        /\ executing' = executing]_vars

\* C13 witness: a.b is registered and requires the context; execute was
\* called with its model name a_b, a context and kwargs, and raised KeyError.
C13_Witness ==
    /\ outcome.op = "execute"
    /\ outcome.raised = "KeyError"
    /\ request.name = NameAUnderB
    /\ NameADotB \in DOMAIN _tools
    /\ request.context /= None
    /\ request.kwargs = [q |-> Str("x")]

\* C17: a handler that has finished wrote the start log, called the
\* function, and then, the function having returned, wrote the end log, or,
\* the function having raised, wrote the error log (when the error is an
\* Exception) and then the end log, the call raising the function's error;
\* the error log is written only after a function that raised, and the end
\* log once, last.  A handler that awaits its function has written the
\* start log only.
C17_HandlerLogOrder ==
    /\ Executed =>
        /\ EventKinds(request.events)
              \in {<<"tool.call.start", "func", "return", "tool.call.end">>,
                   <<"tool.call.start", "func", "raise", "tool.call.error",
                     "tool.call.end">>,
                   <<"tool.call.start", "func", "raise", "tool.call.end">>}
        /\ (outcome.raised /= "") = (request.events[3].event = "raise")
        /\ outcome.raised /= "" =>
                /\ outcome.raised = request.events[3].error
                /\ IsException(outcome.raised)
                        = (request.events[4].event = "tool.call.error")
        /\ \A i \in {1, 2, Len(request.events)} :
                request.events[i].name = request.name
    /\ \A c \in BagToSet(executing) :
            EventKinds(c.events) = <<"tool.call.start", "func">>

\* C17 witness: the function of a.b raised an Exception: the logs are start,
\* error, end, and execute raised the error.
C17_Witness ==
    /\ Executed
    /\ request.name = NameADotB
    /\ outcome.raised = "ToolError"
    /\ EventKinds(request.events)
          = <<"tool.call.start", "func", "raise", "tool.call.error", "tool.call.end">>

\* C18: an execute call that went through the handler called the function
\* once; it returns the value the function returned, or raises the error the
\* function raised.
C18_BodyInvokedOnce ==
    Executed =>
        /\ Cardinality(EventsOf(request.events, "func")) = 1
        /\ Cardinality(EventsOf(request.events, "return")
                          \cup EventsOf(request.events, "raise")) = 1
        /\ \A i \in EventsOf(request.events, "return") :
                outcome.raised = "" /\ outcome.value = <<request.events[i].value>>
        /\ \A i \in EventsOf(request.events, "raise") :
                outcome.raised = request.events[i].error /\ outcome.value = <<>>

\* C18 witness: execute of b returned the value its function returned.
C18_Witness ==
    /\ Executed
    /\ request.name = NameB
    /\ outcome.value = <<BodyValue>>
    /\ EventsOf(request.events, "func") = {2}

\* The last operation is an execute call that called the function of a tool
\* registered as requiring the context.
ContextToolInvoked ==
    /\ outcome.op \in {"execute", "await"}
    /\ request.events /= <<>>
    /\ _tools[request.name].tool.context

\* C19 as stated: the function of a tool that requires the context is
\* called without the context.
C19_Original ==
    ContextToolInvoked => "context" \notin DOMAIN request.events[2].kwargs

\* C19: the handler of a tool that requires the context logs the business
\* arguments without the context, and calls the function with every keyword
\* argument it was given, the context under the key "context" among them.
C19_ContextForwarded ==
    ContextToolInvoked =>
        /\ request.events[1].params = CallKwargs(request.kwargs_given)
        /\ "context" \notin DOMAIN request.events[1].params
        /\ request.events[1].context = request.context
        /\ request.events[2].kwargs = request.kwargs
        /\ "context" \in DOMAIN request.events[2].kwargs
        /\ request.events[2].kwargs.context = request.context

\* C19 witness: a.b was executed with a ToolContext and kwargs that held a
\* value of the caller under "context"; the function got the ToolContext.
C19_Witness ==
    /\ Executed
    /\ request.name = NameADotB
    /\ request.kwargs_given = [q |-> Str("x"), context |-> Str("stale")]
    /\ request.events[2].kwargs = [q |-> Str("x"), context |-> PyObj("<ToolContext>")]

\* C20: the registry mapping is the one the register calls built; every
\* step that is no register call (execute, the completion of a suspended
\* execute, has, get, descriptors, compact_rows, detail, model_tools) leaves
\* the mapping and its key order as they were, and no step removes a name.
C20_RegistryStable ==
    /\ [](_tools = latest)
    /\ [][/\ DOMAIN _tools \subseteq DOMAIN _tools'
          /\ outcome'.op /= "register" =>
                _tools' = _tools /\ insertion' = insertion]_vars

\* C20 witness: a.b and b are registered, two execute calls are suspended,
\* and detail(a.b, for_model=True) has returned.
C20_Witness ==
    /\ DOMAIN _tools = {NameADotB, NameB}
    /\ BagCardinality(executing) = 2
    /\ outcome.op = "detail"
    /\ outcome.raised = ""
    /\ request.name = NameADotB
    /\ request.for_model

\* C28: when execute has called the handler of a tool that requires the
\* context, the caller's kwargs and the keyword arguments of the handler
\* hold under "context" the context argument of execute, whatever the
\* caller had put there, and the other arguments as given; for a tool that
\* does not require it, the kwargs are left and forwarded as given.
C28_ContextInjected ==
    (outcome.op \in {"execute", "await"} /\ request.events /= <<>>) =>
        IF _tools[request.name].tool.context
            THEN /\ request.kwargs = SetItem(request.kwargs_given, "context",
                                             request.context)
                 /\ request.events[1].context = request.context
                 /\ request.events[2].kwargs = request.kwargs
            ELSE /\ request.kwargs = request.kwargs_given
                 /\ request.events[1].context = None
                 /\ request.events[2].kwargs = request.kwargs_given

\* C28 witness: b, which does not require the context, was executed with a
\* ToolContext and kwargs that held a value under "context": its function
\* got the kwargs as they were.
C28_Witness ==
    /\ Executed
    /\ request.name = NameB
    /\ request.context /= None
    /\ request.kwargs_given = [q |-> Str("x"), context |-> Str("stale")]
    /\ request.events[2].kwargs = request.kwargs_given

\* ------------------------------------------------------------ claims, telegram
\* Some _on_text invocation for the chat awaits on_receive.
Receiving(chat_id) ==
    \E h \in Handlers : handlers[h].at = "on_receive" /\ handlers[h].chat_id = chat_id

\* Some _on_text invocation for the chat is inside _start_typing, replacing the
\* task of the chat.
Restarting(chat_id) ==
    \E h \in Handlers : handlers[h].at = "_start_typing" /\ handlers[h].chat_id = chat_id

\* The chat has a task in _typing_tasks that was not cancelled.
TrackedUncancelled(chat_id) ==
    /\ chat_id \in DOMAIN _typing_tasks
    /\ tasks[_typing_tasks[chat_id]] \notin {"cancelling", "cancelled"}

\* C29, as the specification states it: while the channel runs and some
\* invocation for a chat awaits on_receive, the chat has a tracked typing task
\* that was not cancelled (read in the claim's favour: the moment in which
\* another invocation replaces the task is left out).
C29_Original ==
    stopping.at = "polling" =>
        \A chat_id \in Chats :
            (Receiving(chat_id) /\ ~Restarting(chat_id)) => TrackedUncancelled(chat_id)

\* C30, as the specification states it: while the channel runs, every typing
\* task that was created and not cancelled (and has not ended) is the one
\* _typing_tasks holds for its chat, so that the cancellation of
\* _typing_tasks.values() reaches every live task.
C30_Original ==
    stopping.at = "polling" =>
        \A t \in Handlers : tasks[t] = "running" => t \in TrackedTasks(_typing_tasks)

\* ------------------------------------------------------------ claims, _split_message
\* C32: _split_message returns for every text and every limit >= 1; no chunk is
\* longer than the limit, and no chunk of a non-empty text is empty.
C32_SplitTerminates ==
    /\ <>(split_pc = "returned")
    /\ [](\A i \in 1..Len(chunks) :
              /\ Len(chunks[i]) <= limit
              /\ full_text /= <<>> => chunks[i] /= <<>>)

\* A text longer than the limit was cut at a newline and at the limit.
C32_Witness ==
    /\ split_pc = "returned"
    /\ Len(chunks) >= 3
    /\ \E i \in 1..Len(chunks) : Len(chunks[i]) < limit
    /\ \E i \in 1..Len(chunks) : Len(chunks[i]) = limit /\ chunks[i][1] = "\n"

\* The update meets the conditions of the claim: it has a message and an
\* effective user, its chat is allowed and its sender is allowed.
Allowed(config, u) ==
    /\ u.message
    /\ u.effective_user
    /\ config.allow_chats = {} \/ str(u.chat_id) \in config.allow_chats
    /\ config.allow_from = {} \/ str(u.id) \in config.allow_from
                               \/ u.username \in config.allow_from

\* C31: an invocation of _on_text called on_receive, or started a typing task,
\* only if its update has a message and an effective user, its chat is in
\* allow_chats or allow_chats is empty, and the sender's id or username is in
\* allow_from or allow_from is empty.
C31_OnlyAllowedReceived ==
    \A h \in Handlers :
        (handlers[h].received \/ tasks[h] /= "none") => Allowed(_config, handlers[h].update)

\* With chats and senders restricted, one update was let through by the
\* sender's username, one was answered "Access denied." and one from another
\* chat was dropped.
C31_Witness ==
    /\ _config.allow_chats /= {}
    /\ _config.allow_from /= {}
    /\ \E h \in Handlers :
           /\ handlers[h].received
           /\ tasks[h] /= "none"
           /\ str(handlers[h].update.id) \notin _config.allow_from
    /\ \E h \in Handlers : handlers[h].reply = "Access denied."
    /\ \E h \in Handlers :
           /\ handlers[h].at = "returned"
           /\ handlers[h].update.message
           /\ handlers[h].update.effective_user
           /\ handlers[h].chat_id \notin _config.allow_chats

====
